---- MODULE Spec2Model ----
(***************************************************************************)
(* Verification model of the MICC authoring scheduler:                     *)
(*   - EquivocationDetector        (consensus/micc/src/equivocation.rs)    *)
(*   - start_slot_worker_v2        (consensus/slots/src/lib.rs)            *)
(*   - SmartEventDrivenController / EventDrivenController and              *)
(*     SmartCollectionWindow       (consensus/micc-client/src/event_driven.rs) *)
(* Each component has its own specification over the shared variables; the *)
(* variables of the other components stay at their initial values.         *)
(***************************************************************************)
EXTENDS Integers, Sequences, FiniteSets, TLC

(***************************************************************************)
(* Option values                                                           *)
(***************************************************************************)
None == [some |-> FALSE]
Some(x) == [some |-> TRUE, val |-> x]

Min(a, b) == IF a <= b THEN a ELSE b
Max(a, b) == IF a >= b THEN a ELSE b

(***************************************************************************)
(* Bounds of the detector model                                            *)
(***************************************************************************)
MaxCalls == 4
MaxReportsCfg == 1

(***************************************************************************)
(* Program constants of the detector                                       *)
(***************************************************************************)
ReportsCapacity == 100
OffenderCapacity == 100
MAX_SLOTS == 1000

\* representative slots, authorities and headers: two headers of one block number that
\* differ in the parent hash, and one of another block number
SlotIds == {1, 2}
AuthorityIds == {1, 2}
Headers == {[number |-> 1, parent |-> 1], [number |-> 1, parent |-> 2],
            [number |-> 2, parent |-> 1]}
SessionIndexes == {1}

VARIABLES
    slot_blocks,            \* EquivocationDetector.slot_blocks
    session_equivocations,  \* EquivocationDetector.session_equivocations
    config,                 \* EquivocationDetector.config
    det_last,               \* the last detector call: arguments, pre-state entry, return value
    det_submitted,          \* (slot, author, header) triples given to check_block this session
    det_earlier,            \* those given to check_block before the last new_session
    det_calls               \* number of detector calls made

det_vars == <<slot_blocks, session_equivocations, config, det_last, det_submitted,
              det_earlier, det_calls>>

VARIABLES
    sw_pc,            \* start_slot_worker_v2: "select", "next_slot" (awaiting next_slot_v2) or "on_slot"
    sw_branch,        \* the select! branch being run: "command", "interval" or "none"
    command_stream,   \* items sent on command_stream and not yet taken by the loop
    stream_closed,    \* the sender side of command_stream has ended
    stream_end_seen,  \* the loop has logged the end of command_stream
    interval_ready,   \* slot_interval has a tick due
    on_slot_running,  \* number of worker.on_slot futures started and not yet completed
    on_slot_log,      \* cause of every on_slot started: the CreateBlock's number, or 0 for the interval
    created,          \* number of CreateBlock items sent so far
    taken             \* number of CreateBlock items the loop has taken from the stream

sw_vars == <<sw_pc, sw_branch, command_stream, stream_closed, stream_end_seen, interval_ready,
             on_slot_running, on_slot_log, created, taken>>

VARIABLES
    win_in,     \* arguments of SmartCollectionWindow::new
    win_out     \* its outcome: not yet called, the window built, or a panic

win_vars == <<win_in, win_out>>

VARIABLES
    now,                    \* the clock: time since the controller was constructed
    ctl_kind,               \* "smart": SmartEventDrivenController, "legacy": EventDrivenController
    ctl_config,             \* EventDrivenConfig
    collection_window,      \* Option of the active window
    empty_block_timer,      \* Option of the instant the empty-block timer fires
    pending_transactions,
    last_block_time,
    network_load_tracker,   \* NetworkLoadTracker (smart controller only)
    ctl_last,               \* the last controller call: the event's type, whether its count
                            \* reaches max_batch_size (full) and its priority the threshold
                            \* (high), whether a window was active and expired, the result
    cleared_by,             \* the PoolEmpty / record_block_produced since which no window was started
    expired_returns         \* CollectionWindowExpired returns since the last window was started

ctl_vars == <<now, ctl_kind, ctl_config, collection_window, empty_block_timer,
              pending_transactions, last_block_time, network_load_tracker, ctl_last,
              cleared_by, expired_returns>>

VARIABLES
    bo_param,           \* BackoffAuthoringOnFinalizedHeadLagging
    head_number,        \* HeadState.head_number
    head_slot,          \* HeadState.head_slot
    finalized_number,
    slot_now,           \* HeadState.slot_now
    last_authored,      \* Option of the slot of the last block authored in this run
    bo_last             \* the last should_backoff call: its arguments, the slot authored
                        \* before it, and its result

bo_vars == <<bo_param, head_number, head_slot, finalized_number, slot_now, last_authored,
             bo_last>>

VARIABLES
    os_in,      \* what on_slot meets: the outcome of every step it can take
    os_out,     \* the on_slot call: whether made, the stage it reached, the calls it made
                \* in order, the step at which the proposing deadline fired, the import
                \* calls made, whether the block was imported, and the result
    os_prev,    \* the on_slot call of the slot before
    os_count    \* the number of on_slot calls made

os_vars == <<os_in, os_out, os_prev, os_count>>

VARIABLES
    cs_in,      \* claim_slot's worker and arguments: force_authoring, the keystore's keys,
                \* the slot and the authorities
    cs_out      \* the claim_slot call: whether made and its result

cs_vars == <<cs_in, cs_out>>

VARIABLES
    es_config,          \* EventDrivenConfig of the event source
    es_now,             \* the clock of the event source
    es_pool,            \* the pool: its ready count and the highest priority among them
    es_notifications,   \* items waiting in pool.import_notification_stream()
    es_sent,            \* import notifications sent so far
    es_feed_ended,      \* the import notification stream has ended
    last_status,        \* unfold state: the ready count last seen
    collection_timer,   \* unfold state: Option of the instant the collection window expires
    backup_interval,    \* unfold state: the instant of the next tick of the backup interval
    es_ended,           \* the unfold stream has returned None
    es_delivered,       \* the items the filtered stream has delivered (the last ones)
    es_noaction_seen,   \* a NoAction decision was taken inside the source
    es_last             \* the last run of the unfold closure: the arm of the select!, what
                        \* it met and what it decided

es_vars == <<es_config, es_now, es_pool, es_notifications, es_sent, es_feed_ended,
             last_status, collection_timer, backup_interval, es_ended, es_delivered,
             es_noaction_seen, es_last>>

VARIABLES
    le_in,      \* the arguments of the slot lenience functions: parent_slot, slot_info.slot
                \* and slot_info.duration
    le_out      \* whether they were called, and their results

le_vars == <<le_in, le_out>>

VARIABLES
    CurrentSlot,                   \* the pallet's CurrentSlot storage value
    AllowMultipleBlocksPerSlot,    \* the runtime's Config::AllowMultipleBlocksPerSlot
    pl_blocks,                     \* the slots of the blocks whose on_initialize returned
    pl_last                        \* the last on_initialize call and what it did

pl_vars == <<CurrentSlot, AllowMultipleBlocksPerSlot, pl_blocks, pl_last>>

VARIABLES
    lt_tracker,     \* a NetworkLoadTracker on its own
    lt_now,         \* the current instant; the tracker is created at instant 0
    lt_first,       \* the instant of the first record_transaction call
    lt_recorded     \* how many times record_transaction was called

lt_vars == <<lt_tracker, lt_now, lt_first, lt_recorded>>

VARIABLES
    wl_config,  \* the CollectionConfig the window was built with
    wl_window,  \* a SmartCollectionWindow
    wl_now,     \* the clock: time since the window was built
    wl_last     \* the last update_priority call: its priority, its instant, the window before it

wl_vars == <<wl_config, wl_window, wl_now, wl_last>>

VARIABLES
    SessionEquivocations,  \* pallet storage map: authority -> count (ValueQuery, 0 if absent)
    DisabledAuthorities,   \* pallet storage map: the authorities that have an entry
    enable_slashing,       \* EquivocationConfig::<T>::get().enable_slashing
    pe_due,                \* the authorities reported while slashing was enabled and not
                           \* re-enabled by enable_authority since
    pe_last,               \* the last dispatched call: name, origin, authority, result, storage before
    pe_calls               \* number of calls dispatched

pe_vars == <<SessionEquivocations, DisabledAuthorities, enable_slashing, pe_due, pe_last,
             pe_calls>>

VARIABLES
    mo_config,  \* MonitoringConfig
    mo_state,   \* the data behind the monitor's mutexes, and the poisoned mutexes
    mo_now,     \* the clock
    mo_status,  \* "running", or "deadlock" once the calling thread is stuck in lock()
    mo_last,    \* the last operation called and how it ended
    mo_calls    \* number of operations called

mo_vars == <<mo_config, mo_state, mo_now, mo_status, mo_last, mo_calls>>

VARIABLES
    cd_in,   \* which of the two duration functions is called, its configuration and tx_count
    cd_out   \* whether it was called, and the duration returned

cd_vars == <<cd_in, cd_out>>

ext_vars == <<bo_vars, os_vars, cs_vars, es_vars, le_vars, pl_vars, lt_vars, wl_vars, pe_vars, mo_vars, cd_vars>>

vars == <<det_vars, sw_vars, win_vars, ctl_vars, ext_vars>>

(***************************************************************************)
(* EquivocationDetector                                                    *)
(***************************************************************************)

\* Header::hash(): an injective digest of the header's fields
Hash(h) == h.number * 16 + h.parent

SessionEquivocationsDefault == [reports |-> <<>>, offender_counts |-> <<>>]

\* index of the first (authority, count) entry of the offender table for auth, 0 if none
OffenderIndex(counts, auth) ==
    IF \E i \in 1..Len(counts) : counts[i][1] = auth
    THEN CHOOSE i \in 1..Len(counts) :
            /\ counts[i][1] = auth
            /\ \A j \in 1..(i - 1) : counts[j][1] # auth
    ELSE 0

\* BoundedVec::try_push
TryPush(vec, x, cap) == IF Len(vec) < cap THEN Append(vec, x) ELSE vec

record_equivocation(sess, report, cfg) ==
    IF Len(sess.reports) >= cfg.max_reports_per_session
    THEN sess
    ELSE LET i == OffenderIndex(sess.offender_counts, report.offender)
             counts == IF i # 0
                       THEN [sess.offender_counts EXCEPT ![i] = <<@[1], @[2] + 1>>]
                       ELSE IF Len(sess.offender_counts) < OffenderCapacity
                            THEN TryPush(sess.offender_counts, <<report.offender, 1>>, OffenderCapacity)
                            ELSE sess.offender_counts
         IN  [reports |-> TryPush(sess.reports, report, ReportsCapacity),
              offender_counts |-> counts]

\* the slot's entry after entry(slot).or_insert_with(Vec::new)
SlotEntry(blocks, slot) == IF slot \in DOMAIN blocks THEN blocks[slot] ELSE <<>>

\* ConflictIndex without the comparison of the authors
ConflictIndex_AnyAuthor(entry, header, author) ==
    IF \E i \in 1..Len(entry) : Hash(entry[i].header) # Hash(header)
    THEN CHOOSE i \in 1..Len(entry) :
            /\ Hash(entry[i].header) # Hash(header)
            /\ \A j \in 1..(i - 1) : Hash(entry[j].header) = Hash(header)
    ELSE 0

\* index of the first stored pair of the same author with a different header hash, 0 if none
ConflictIndex(entry, header, author) ==
    IF \E i \in 1..Len(entry) : entry[i].author = author /\ Hash(entry[i].header) # Hash(header)
    THEN CHOOSE i \in 1..Len(entry) :
            /\ entry[i].author = author /\ Hash(entry[i].header) # Hash(header)
            /\ \A j \in 1..(i - 1) :
                  ~(entry[j].author = author /\ Hash(entry[j].header) # Hash(header))
    ELSE 0

SetMin(S) == CHOOSE x \in S : \A y \in S : x <= y

SetMax(S) == CHOOSE x \in S : \A y \in S : x >= y

\* EvictOldest that removes the numerically largest key
EvictOldest_Newest(blocks) ==
    IF Cardinality(DOMAIN blocks) > MAX_SLOTS
    THEN [s \in (DOMAIN blocks) \ {SetMax(DOMAIN blocks)} |-> blocks[s]]
    ELSE blocks

\* the slot index with the numerically smallest key removed once it holds more than MAX_SLOTS keys
EvictOldest(blocks) ==
    IF Cardinality(DOMAIN blocks) > MAX_SLOTS
    THEN [s \in (DOMAIN blocks) \ {SetMin(DOMAIN blocks)} |-> blocks[s]]
    ELSE blocks

check_block(header, slot, author, session_index) ==
    LET entry == SlotEntry(slot_blocks, slot)
        inserted == [s \in (DOMAIN slot_blocks) \cup {slot} |-> SlotEntry(slot_blocks, s)]
        i == ConflictIndex(entry, header, author)
    IN  /\ det_calls < MaxCalls
        /\ det_calls' = det_calls + 1
        /\ det_submitted' = det_submitted \cup {<<slot, author, header>>}
        /\ det_earlier' = det_earlier
        /\ config' = config
        /\ IF i # 0
           THEN LET proof == [slot |-> slot, offender |-> author,
                              first_header |-> entry[i].header, second_header |-> header]
                    report == [offender |-> author, slot |-> slot,
                               block_number |-> header.number,  \* saturated_into::<u32>() of a number below 2^32
                               session_index |-> session_index]
                IN  /\ slot_blocks' = inserted
                    /\ session_equivocations' =
                          record_equivocation(session_equivocations, report, config)
                    /\ det_last' = [op |-> "check_block", header |-> header, slot |-> slot,
                                    author |-> author, pre_entry |-> entry,
                                    pre_slots |-> DOMAIN slot_blocks,
                                    pre_submitted |-> det_submitted,
                                    pre_session |-> session_equivocations,
                                    ret |-> Some(proof)]
           ELSE /\ slot_blocks' =
                      EvictOldest([inserted EXCEPT ![slot] =
                                      Append(@, [header |-> header, author |-> author])])
                /\ session_equivocations' = session_equivocations
                /\ det_last' = [op |-> "check_block", header |-> header, slot |-> slot,
                                author |-> author, pre_entry |-> entry,
                                pre_slots |-> DOMAIN slot_blocks,
                                pre_submitted |-> det_submitted,
                                pre_session |-> session_equivocations,
                                ret |-> None]

\* utils::verify_equivocation_proof
verify_equivocation_proof(proof) ==
    IF Hash(proof.first_header) = Hash(proof.second_header)
    THEN FALSE
    ELSE IF proof.first_header.number # proof.second_header.number
         THEN FALSE
         ELSE TRUE

CheckBlock ==
    \E header \in Headers, slot \in SlotIds, author \in AuthorityIds, si \in SessionIndexes :
        check_block(header, slot, author, si)

DetNoCall == [op |-> "new", header |-> [number |-> 1, parent |-> 1], slot |-> 1, author |-> 1,
              pre_entry |-> <<>>, pre_slots |-> {}, pre_submitted |-> {},
              pre_session |-> SessionEquivocationsDefault, ret |-> None]

\* new_session that leaves the slot index as it is
new_session_KeepSlots ==
    /\ det_calls < MaxCalls
    /\ det_calls' = det_calls + 1
    /\ slot_blocks' = slot_blocks
    /\ session_equivocations' = SessionEquivocationsDefault
    /\ det_submitted' = {}
    /\ det_earlier' = det_earlier \cup det_submitted
    /\ det_last' = [DetNoCall EXCEPT !.op = "new_session"]
    /\ config' = config

\* EquivocationDetector::new_session
new_session ==
    /\ det_calls < MaxCalls
    /\ det_calls' = det_calls + 1
    /\ slot_blocks' = <<>>
    /\ session_equivocations' = SessionEquivocationsDefault
    /\ det_submitted' = {}
    /\ det_earlier' = det_earlier \cup det_submitted
    /\ det_last' = [DetNoCall EXCEPT !.op = "new_session"]
    /\ config' = config

\* is_authority_slashable that does not look at the configuration
is_authority_slashable_IgnoreConfig(sess, cfg, authority) ==
    LET i == OffenderIndex(sess.offender_counts, authority)
    IN  IF i # 0 THEN sess.offender_counts[i][2] > 0 ELSE FALSE

\* EquivocationDetector::is_authority_slashable
is_authority_slashable(sess, cfg, authority) ==
    LET i == OffenderIndex(sess.offender_counts, authority)
    IN  IF i # 0
        THEN cfg.enable_slashing /\ sess.offender_counts[i][2] > 0
        ELSE FALSE

\* a caller asks is_authority_slashable(authority)
IsAuthoritySlashable ==
    \E authority \in AuthorityIds :
        /\ det_last' = [op |-> "is_authority_slashable", author |-> authority,
                        ret |-> is_authority_slashable(session_equivocations, config,
                                                       authority)]
        /\ UNCHANGED <<slot_blocks, session_equivocations, config, det_submitted,
                       det_earlier, det_calls>>

\* EquivocationDetector::new(config), for every configuration of the bounded set
DetInit ==
    /\ slot_blocks = <<>>
    /\ session_equivocations = SessionEquivocationsDefault
    /\ config \in [enable_slashing : BOOLEAN, max_reports_per_session : 1..MaxReportsCfg]
    /\ det_last = DetNoCall
    /\ det_submitted = {}
    /\ det_earlier = {}
    /\ det_calls = 0

DetNext ==
    \/ CheckBlock /\ UNCHANGED <<sw_vars, win_vars, ctl_vars, ext_vars>>
    \/ new_session /\ UNCHANGED <<sw_vars, win_vars, ctl_vars, ext_vars>>
    \/ IsAuthoritySlashable /\ UNCHANGED <<sw_vars, win_vars, ctl_vars, ext_vars>>

(***************************************************************************)
(* start_slot_worker_v2: the authoring loop                                *)
(***************************************************************************)
MaxTriggers == 3
MaxOnSlots == 3

\* the loop and its streams before the first select!
SwInit ==
    /\ sw_pc = "select"
    /\ sw_branch = "none"
    /\ command_stream = <<>>
    /\ stream_closed = FALSE
    /\ stream_end_seen = FALSE
    /\ interval_ready = FALSE
    /\ on_slot_running = 0
    /\ on_slot_log = <<>>
    /\ created = 0
    /\ taken = 0

\* the trigger source sends an item on command_stream
SendTrigger ==
    /\ ~stream_closed
    /\ created < MaxTriggers
    /\ Len(command_stream) < MaxTriggers
    /\ \E t \in {"CreateBlock", "NoAction"} :
          /\ command_stream' = Append(command_stream,
                                      [trigger |-> t, n |-> IF t = "CreateBlock" THEN created + 1 ELSE 0])
          /\ created' = IF t = "CreateBlock" THEN created + 1 ELSE created
    /\ UNCHANGED <<sw_pc, sw_branch, stream_closed, stream_end_seen, interval_ready,
                   on_slot_running, on_slot_log, taken>>

\* the trigger source ends its stream
CloseStream ==
    /\ ~stream_closed
    /\ stream_closed' = TRUE
    /\ UNCHANGED <<sw_pc, sw_branch, command_stream, stream_end_seen, interval_ready,
                   on_slot_running, on_slot_log, created, taken>>

\* one period of slot_interval has passed without a reset
IntervalElapses ==
    /\ ~interval_ready
    /\ interval_ready' = TRUE
    /\ UNCHANGED <<sw_pc, sw_branch, command_stream, stream_closed, stream_end_seen,
                   on_slot_running, on_slot_log, created, taken>>

\* select!: command_stream.next() yields Some(SlotTrigger::CreateBlock)
TakeCreateBlock ==
    /\ sw_pc = "select"
    /\ command_stream # <<>>
    /\ Head(command_stream).trigger = "CreateBlock"
    /\ Len(on_slot_log) < MaxOnSlots
    /\ command_stream' = Tail(command_stream)
    /\ taken' = taken + 1
    /\ sw_pc' = "next_slot"
    /\ sw_branch' = "command"
    /\ UNCHANGED <<stream_closed, stream_end_seen, interval_ready, on_slot_running,
                   on_slot_log, created>>

\* select!: command_stream.next() yields Some(_) for another trigger: nothing is done
TakeOtherTrigger ==
    /\ sw_pc = "select"
    /\ command_stream # <<>>
    /\ Head(command_stream).trigger # "CreateBlock"
    /\ command_stream' = Tail(command_stream)
    /\ UNCHANGED <<sw_pc, sw_branch, stream_closed, stream_end_seen, interval_ready,
                   on_slot_running, on_slot_log, created, taken>>

\* select!: command_stream.next() yields None: warn and continue the loop
TakeStreamEnd ==
    /\ sw_pc = "select"
    /\ command_stream = <<>>
    /\ stream_closed
    /\ stream_end_seen' = TRUE
    /\ UNCHANGED <<sw_pc, sw_branch, command_stream, stream_closed, interval_ready,
                   on_slot_running, on_slot_log, created, taken>>

\* select!: slot_interval.tick() completes
TakeIntervalTick ==
    /\ sw_pc = "select"
    /\ interval_ready
    /\ Len(on_slot_log) < MaxOnSlots
    /\ interval_ready' = FALSE
    /\ sw_pc' = "next_slot"
    /\ sw_branch' = "interval"
    /\ UNCHANGED <<command_stream, stream_closed, stream_end_seen, on_slot_running,
                   on_slot_log, created, taken>>

\* worker.on_slot(slot_info) spawned without being awaited
PcAfterOnSlotCall_Spawned == "select"

\* where the loop is once worker.on_slot(slot_info) has been called: `.await` keeps it there
PcAfterOnSlotCall == "on_slot"

\* slots.next_slot_v2().await returns the slot info and the loop calls worker.on_slot
next_slot_v2 ==
    /\ sw_pc = "next_slot"
    /\ on_slot_running' = on_slot_running + 1
    /\ on_slot_log' = Append(on_slot_log, IF sw_branch = "command" THEN taken ELSE 0)
    /\ sw_pc' = PcAfterOnSlotCall
    /\ UNCHANGED <<sw_branch, command_stream, stream_closed, stream_end_seen, interval_ready,
                   created, taken>>

\* a worker.on_slot future completes; the awaiting loop goes on, and after a command
\* trigger it resets slot_interval
OnSlotReturns ==
    /\ on_slot_running > 0
    /\ on_slot_running' = on_slot_running - 1
    /\ IF sw_pc = "on_slot"
       THEN /\ sw_pc' = "select"
            /\ sw_branch' = "none"
            /\ interval_ready' = IF sw_branch = "command" THEN FALSE ELSE interval_ready
       ELSE UNCHANGED <<sw_pc, sw_branch, interval_ready>>
    /\ UNCHANGED <<command_stream, stream_closed, stream_end_seen, on_slot_log, created, taken>>

SwNext ==
    \/ SendTrigger /\ UNCHANGED <<det_vars, win_vars, ctl_vars, ext_vars>>
    \/ CloseStream /\ UNCHANGED <<det_vars, win_vars, ctl_vars, ext_vars>>
    \/ IntervalElapses /\ UNCHANGED <<det_vars, win_vars, ctl_vars, ext_vars>>
    \/ TakeCreateBlock /\ UNCHANGED <<det_vars, win_vars, ctl_vars, ext_vars>>
    \/ TakeOtherTrigger /\ UNCHANGED <<det_vars, win_vars, ctl_vars, ext_vars>>
    \/ TakeStreamEnd /\ UNCHANGED <<det_vars, win_vars, ctl_vars, ext_vars>>
    \/ TakeIntervalTick /\ UNCHANGED <<det_vars, win_vars, ctl_vars, ext_vars>>
    \/ next_slot_v2 /\ UNCHANGED <<det_vars, win_vars, ctl_vars, ext_vars>>
    \/ OnSlotReturns /\ UNCHANGED <<det_vars, win_vars, ctl_vars, ext_vars>>

(***************************************************************************)
(* Time and configuration of the event-driven controllers                  *)
(* Instants and durations are in microseconds.                             *)
(***************************************************************************)
Millis(n) == n * 1000

\* bound on transaction priorities; it stands for TransactionPriority::MAX (u64::MAX)
MaxPriority == 4
TransactionPriorityMAX == MaxPriority
Priorities == 1..MaxPriority
OptPriorities == {None} \cup {Some(p) : p \in Priorities}

\* network load in transactions per second, as the fraction n / (d microseconds)
Tps(n, d) == [n |-> n, d |-> d]
TpsZero == Tps(0, 1)
\* tps > k and tps < k/2 for a whole number k, on the fraction
TpsGreater(tps, k) == tps.n * 1000000 > k * tps.d
TpsLessHalf(tps) == 2 * tps.n * 1000000 < tps.d

\* CollectionConfig values: the default times with a small batch size and threshold, the
\* same without adaptive timing, a wide interval, and min = max
CollectionConfigs ==
    {[min_collection_time |-> Millis(mn), max_collection_time |-> Millis(mx),
      max_batch_size |-> 2, priority_threshold |-> 4, enable_adaptive_timing |-> ad] :
        mn \in {100}, mx \in {100, 400, 1000}, ad \in BOOLEAN}

\* Duration::clamp(min, max): Ord::clamp panics when min > max, and otherwise returns
ClampPanics(mn, mx) == mn > mx
Clamp(d, mn, mx) == IF d < mn THEN mn ELSE IF d > mx THEN mx ELSE d

(***************************************************************************)
(* SmartCollectionWindow                                                   *)
(***************************************************************************)
\* load factor in hundredths
LoadFactor(network_load) ==
    IF TpsGreater(network_load, 5) THEN 70
    ELSE IF TpsGreater(network_load, 2) THEN 85
    ELSE IF TpsLessHalf(network_load) THEN 130
    ELSE 100

\* priority factor in tenths
PriorityFactor(cfg, highest_priority) ==
    IF highest_priority.some
    THEN IF highest_priority.val >= cfg.priority_threshold THEN 1
         ELSE IF highest_priority.val > cfg.priority_threshold \div 2 THEN 5
         ELSE 10
    ELSE 10

\* the duration before the final clamp
AdjustedDuration(cfg, network_load, highest_priority, priority_triggered) ==
    LET base_duration ==
            IF priority_triggered
            THEN cfg.min_collection_time
            ELSE Millis(((cfg.min_collection_time \div 1000)
                         + (cfg.max_collection_time \div 1000)) \div 2)
    IN  IF ~cfg.enable_adaptive_timing
        THEN base_duration
        ELSE (base_duration * LoadFactor(network_load)
                * PriorityFactor(cfg, highest_priority)) \div 1000

\* calculate_adaptive_duration without the final clamp
calculate_adaptive_duration_NoClamp(cfg, network_load, highest_priority, priority_triggered) ==
    AdjustedDuration(cfg, network_load, highest_priority, priority_triggered)

calculate_adaptive_duration(cfg, network_load, highest_priority, priority_triggered) ==
    Clamp(AdjustedDuration(cfg, network_load, highest_priority, priority_triggered),
          cfg.min_collection_time, cfg.max_collection_time)

\* SmartCollectionWindow::new at instant t: None when the clamp panics, else the window
SmartCollectionWindowNew(cfg, initial_tx_count, highest_priority, network_load, priority_triggered, t) ==
    LET duration == calculate_adaptive_duration(cfg, network_load, highest_priority,
                                                priority_triggered)
    IN  IF ClampPanics(cfg.min_collection_time, cfg.max_collection_time)
        THEN None
        ELSE Some([started_at |-> t,
                   duration |-> duration,
                   initial_tx_count |-> initial_tx_count,
                   highest_priority |-> highest_priority,
                   network_load |-> network_load,
                   timer |-> t + duration,
                   priority_triggered |-> priority_triggered])

\* the arguments SmartCollectionWindow::new is tried on
WindowLoads == {TpsZero, Tps(1, 2000000), Tps(1, 1000000), Tps(2, 1000000),
                Tps(5, 2000000), Tps(5, 1000000), Tps(6, 1000000)}
WindowConfigs ==
    CollectionConfigs \cup
    {[min_collection_time |-> Millis(400), max_collection_time |-> Millis(100),
      max_batch_size |-> 2, priority_threshold |-> 4, enable_adaptive_timing |-> ad] :
        ad \in BOOLEAN}
MaxTxCount == 3

WinInit ==
    /\ win_in \in [cfg : WindowConfigs, initial_tx_count : {0, MaxTxCount},
                    highest_priority : OptPriorities, network_load : WindowLoads,
                    priority_triggered : BOOLEAN]
    /\ win_out = [called |-> FALSE, window |-> None]

WinIdle ==
    /\ win_in = [cfg |-> CHOOSE c \in WindowConfigs : TRUE, initial_tx_count |-> 0,
                 highest_priority |-> None, network_load |-> TpsZero,
                 priority_triggered |-> FALSE]
    /\ win_out = [called |-> FALSE, window |-> None]

BuildWindow ==
    /\ ~win_out.called
    /\ win_out' = [called |-> TRUE, window |-> SmartCollectionWindowNew(win_in.cfg, win_in.initial_tx_count,
                                           win_in.highest_priority, win_in.network_load,
                                           win_in.priority_triggered, 0)]
    /\ UNCHANGED win_in

WinNext == BuildWindow /\ UNCHANGED <<det_vars, sw_vars, ctl_vars, ext_vars>>

(***************************************************************************)
(* NetworkLoadTracker                                                      *)
(***************************************************************************)
TenSeconds == 10000000
RecalcInterval == Millis(500)

NetworkLoadTrackerNew(max_history_size, t) ==
    [transaction_history |-> <<>>, max_history_size |-> max_history_size,
     current_tps |-> TpsZero, last_calculation |-> t]

\* calculate_tps at instant t
calculate_tps(tr, t) ==
    IF Len(tr.transaction_history) < 2
    THEN TpsZero
    ELSE LET duration == t - tr.transaction_history[1]
         IN  IF duration > 0 THEN Tps(Len(tr.transaction_history), duration) ELSE TpsZero

\* the tracker after record_transaction at instant t; the call returns its current_tps
record_transaction(tr, t) ==
    LET pushed == Append(tr.transaction_history, t)
        recent == SelectSeq(pushed, LAMBDA ts : ts > t - TenSeconds)
        limited == IF Len(recent) > tr.max_history_size
                   THEN SubSeq(recent, Len(recent) - tr.max_history_size + 1, Len(recent))
                   ELSE recent
        tr1 == [tr EXCEPT !.transaction_history = limited]
    IN  IF t - tr.last_calculation > RecalcInterval
        THEN [tr1 EXCEPT !.current_tps = calculate_tps(tr1, t), !.last_calculation = t]
        ELSE tr1

(***************************************************************************)
(* SmartEventDrivenController and EventDrivenController                    *)
(* A controller value c holds the fields of the struct, its configuration  *)
(* and the current instant; a call returns the new value and its result.   *)
(***************************************************************************)
TickStep == Millis(300)
MaxTime == 600000
MaxCount == 2

Counts == 0..MaxCount

\* EventDrivenConfig values: adaptive timing with an empty-block interval, and fixed timing
\* without one
EventDrivenConfigs ==
    {[collection |-> cc,
      empty_block_interval_ms |-> IF cc.enable_adaptive_timing THEN Some(Millis(300)) ELSE None,
      transaction_rate_history_size |-> 2] :
        cc \in {x \in CollectionConfigs : x.max_collection_time = Millis(400)}}

PoolEvents ==
    [type : {"TransactionAdded", "PoolEmpty", "TransactionRemoved", "NetworkLoad"},
     count : {0}, priority : {None}]
    \cup [type : {"HighPriorityTransactionAdded"}, count : {0},
          priority : {Some(p) : p \in Priorities}]
    \cup [type : {"PoolReady"}, count : Counts, priority : OptPriorities]

Result(c, ret) == [c |-> c, ret |-> ret]

\* sleep(duration) started at instant t: the instant at which the timer fires
Sleep(t, duration) == t + duration

\* SmartCollectionWindow::is_expired / CollectionWindow::is_expired at instant t
is_expired(window, t) == t >= window.timer

\* SmartCollectionWindow::elapsed / CollectionWindow::elapsed at instant t
elapsed(window, t) == t - window.started_at

\* SmartCollectionWindow::update_priority at instant t
update_priority(window, priority, cfg, t) ==
    IF window.highest_priority.some
    THEN IF priority > window.highest_priority.val
         THEN IF priority >= cfg.priority_threshold
              THEN LET remaining == Max(window.duration - elapsed(window, t), 0)
                       new_remaining == Min(remaining, Millis(100))
                   IN  [window EXCEPT !.highest_priority = Some(priority),
                                      !.timer = Sleep(t, new_remaining)]
              ELSE [window EXCEPT !.highest_priority = Some(priority)]
         ELSE window
    ELSE [window EXCEPT !.highest_priority = Some(priority)]

\* CollectionWindow::new
CollectionWindowNew(duration, initial_tx_count, t) ==
    [started_at |-> t, duration |-> duration, initial_tx_count |-> initial_tx_count,
     timer |-> Sleep(t, duration)]

\* should_produce_immediately without the test of the window's age
Smart_should_produce_immediately_NoStallGuard(c, tx_count, highest_priority) ==
    \/ tx_count >= c.config.collection.max_batch_size
    \/ highest_priority.some /\ highest_priority.val >= c.config.collection.priority_threshold

\* SmartEventDrivenController::should_produce_immediately
Smart_should_produce_immediately(c, tx_count, highest_priority) ==
    \/ tx_count >= c.config.collection.max_batch_size
    \/ highest_priority.some /\ highest_priority.val >= c.config.collection.priority_threshold
    \/ /\ c.collection_window.some
       /\ elapsed(c.collection_window.val, c.now) >= c.config.collection.max_collection_time

\* EventDrivenController::should_produce_immediately
Legacy_should_produce_immediately(c, tx_count) ==
    \/ tx_count >= c.config.collection.max_batch_size
    \/ /\ c.collection_window.some
       /\ elapsed(c.collection_window.val, c.now) >= c.config.collection.max_collection_time

\* EventDrivenController::calculate_collection_window_duration
calculate_collection_window_duration(c, tx_count) ==
    LET duration == IF tx_count > 50 THEN c.config.collection.min_collection_time
                    ELSE IF tx_count > 10 THEN Millis(1000)
                    ELSE c.config.collection.max_collection_time
    IN  Clamp(duration, c.config.collection.min_collection_time,
              c.config.collection.max_collection_time)

\* the window as the controller holds it: initial_tx_count, network_load and
\* priority_triggered are written by new() and never read again, and are left out
Held(window) ==
    IF window.some
    THEN Some([f \in (DOMAIN window.val)
                        \ {"initial_tx_count", "network_load", "priority_triggered"} |->
                  window.val[f]])
    ELSE None

start_collection_window_for_priority(c, priority, network_load) ==
    IF priority >= c.config.collection.priority_threshold
    THEN Result(c, "ProduceImmediately")
    ELSE Result([c EXCEPT !.collection_window =
                    Held(SmartCollectionWindowNew(c.config.collection,
                                                  c.pending_transactions, Some(priority),
                                                  network_load, TRUE, c.now))],
                "StartCollectionWindow")

\* the PoolEmpty arm without the cancellation of the window
OnPoolEmpty_KeepWindow(c) ==
    Result([c EXCEPT !.pending_transactions = 0], "None")

\* the PoolEmpty arm of handle_pool_event, the same in both controllers
OnPoolEmpty(c) ==
    Result([c EXCEPT !.pending_transactions = 0, !.collection_window = None], "None")

\* SmartEventDrivenController::handle_pool_event
Smart_handle_pool_event(c, event) ==
    LET tracked == [c EXCEPT !.network_load_tracker =
                                record_transaction(c.network_load_tracker, c.now)]
        tps == tracked.network_load_tracker.current_tps
    IN  CASE event.type = "TransactionAdded" -> Result(tracked, "None")
          [] event.type = "HighPriorityTransactionAdded" ->
                IF tracked.collection_window.some
                THEN LET updated == [tracked EXCEPT !.collection_window =
                                        Some(update_priority(tracked.collection_window.val,
                                                             event.priority.val,
                                                             c.config.collection, c.now))]
                     IN  IF event.priority.val >= c.config.collection.priority_threshold
                         THEN Result([updated EXCEPT !.collection_window = None],
                                     "ProduceImmediately")
                         ELSE Result(updated, "None")
                ELSE start_collection_window_for_priority(tracked, event.priority.val, tps)
          [] event.type = "PoolReady" ->
                LET counted == [tracked EXCEPT !.pending_transactions = event.count]
                IN  IF ~counted.collection_window.some /\ event.count > 0
                    THEN LET priority_triggered ==
                                 /\ event.priority.some
                                 /\ event.priority.val >=
                                       c.config.collection.priority_threshold \div 2
                         IN  Result([counted EXCEPT !.collection_window =
                                        Held(SmartCollectionWindowNew(c.config.collection,
                                                event.count, event.priority, tps,
                                                priority_triggered, c.now))],
                                    "StartCollectionWindow")
                    ELSE IF Smart_should_produce_immediately(counted, event.count,
                                                             event.priority)
                         THEN Result([counted EXCEPT !.collection_window = None],
                                     "ProduceImmediately")
                         ELSE Result(counted, "None")
          [] event.type = "PoolEmpty" -> OnPoolEmpty(c)
          [] OTHER -> Result(c, "None")

\* EventDrivenController::handle_pool_event
Legacy_handle_pool_event(c, event) ==
    CASE event.type = "HighPriorityTransactionAdded" ->
            IF event.priority.val >= TransactionPriorityMAX \div 2
            THEN Result([c EXCEPT !.collection_window = None], "ProduceImmediately")
            ELSE Result(c, "None")
      [] event.type = "PoolReady" ->
            LET counted == [c EXCEPT !.pending_transactions = event.count]
            IN  IF ~counted.collection_window.some /\ event.count > 0
                THEN Result([counted EXCEPT !.collection_window =
                                Held(Some(CollectionWindowNew(
                                        calculate_collection_window_duration(c, event.count),
                                        event.count, c.now)))],
                            "StartCollectionWindow")
                ELSE IF Legacy_should_produce_immediately(counted, event.count)
                     THEN Result([counted EXCEPT !.collection_window = None],
                                 "ProduceImmediately")
                     ELSE Result(counted, "None")
      [] event.type = "PoolEmpty" -> OnPoolEmpty(c)
      [] OTHER -> Result(c, "None")

\* check_collection_window that leaves an expired window in place
check_collection_window_KeepWindow(c) ==
    IF c.collection_window.some /\ is_expired(c.collection_window.val, c.now)
                                /\ c.pending_transactions > 0
    THEN Result(c, "CollectionWindowExpired")
    ELSE Result(c, "None")

\* check_collection_window, the same in both controllers
check_collection_window(c) ==
    IF c.collection_window.some /\ is_expired(c.collection_window.val, c.now)
    THEN IF c.pending_transactions > 0
         THEN Result([c EXCEPT !.collection_window = None], "CollectionWindowExpired")
         ELSE Result([c EXCEPT !.collection_window = None], "None")
    ELSE Result(c, "None")

\* check_empty_block_timer, the same in both controllers
check_empty_block_timer(c) ==
    IF c.empty_block_timer.some /\ c.now >= c.empty_block_timer.val
    THEN IF c.config.empty_block_interval_ms.some
         THEN Result([c EXCEPT !.empty_block_timer =
                         Some(Sleep(c.now, c.config.empty_block_interval_ms.val))],
                     "EmptyBlockTimer")
         ELSE Result(c, "EmptyBlockTimer")
    ELSE Result(c, "None")

\* record_block_produced that does not restart the empty-block timer
record_block_produced_NoRearm(c) ==
    Result([c EXCEPT !.last_block_time = c.now, !.collection_window = None], "None")

\* record_block_produced, the same in both controllers (it returns nothing)
record_block_produced(c) ==
    LET cleared == [c EXCEPT !.last_block_time = c.now, !.collection_window = None]
    IN  IF c.config.empty_block_interval_ms.some
        THEN Result([cleared EXCEPT !.empty_block_timer =
                        Some(Sleep(c.now, c.config.empty_block_interval_ms.val))], "None")
        ELSE Result(cleared, "None")

\* the controller value of the current state
Controller ==
    [config |-> ctl_config, now |-> now, collection_window |-> collection_window,
     empty_block_timer |-> empty_block_timer, pending_transactions |-> pending_transactions,
     last_block_time |-> last_block_time, network_load_tracker |-> network_load_tracker]

NoEvent == [type |-> "none", count |-> 0, priority |-> None]
CtlNoCall == [op |-> "none", type |-> "none", count |-> 0, full |-> FALSE, high |-> FALSE,
              pre_active |-> FALSE, pre_expired |-> FALSE, pre_stalled |-> FALSE,
              kept |-> FALSE, ret |-> "None"]

\* the state after a call op(event) that returned r
CtlReturn(op, event, r) ==
    LET started == ~collection_window.some /\ r.c.collection_window.some
    IN  /\ collection_window' = r.c.collection_window
        /\ empty_block_timer' = r.c.empty_block_timer
        /\ pending_transactions' = r.c.pending_transactions
        /\ last_block_time' = r.c.last_block_time
        /\ network_load_tracker' = r.c.network_load_tracker
        /\ ctl_last' = [op |-> op, type |-> event.type, count |-> event.count,
                        full |-> event.type = "PoolReady"
                                 /\ event.count >= ctl_config.collection.max_batch_size,
                        high |-> event.priority.some
                                 /\ event.priority.val >=
                                       ctl_config.collection.priority_threshold,
                        pre_active |-> collection_window.some,
                        pre_expired |-> /\ collection_window.some
                                        /\ is_expired(collection_window.val, now),
                        pre_stalled |-> /\ collection_window.some
                                        /\ now - collection_window.val.started_at >=
                                              ctl_config.collection.max_collection_time,
                        kept |-> r.c.collection_window = collection_window,
                        ret |-> r.ret]
        /\ cleared_by' =
              IF started THEN {}
              ELSE IF op = "handle_pool_event" /\ event.type = "PoolEmpty"
                   THEN cleared_by \cup {"PoolEmpty"}
              ELSE IF op = "record_block_produced"
                   THEN cleared_by \cup {"record_block_produced"}
              ELSE cleared_by
        /\ expired_returns' =
              IF started THEN 0
              ELSE IF r.ret = "CollectionWindowExpired" THEN expired_returns + 1
              ELSE expired_returns
        /\ UNCHANGED <<now, ctl_kind, ctl_config>>

\* SmartEventDrivenController::new / EventDrivenController::new
CtlInit ==
    /\ now = 0
    /\ ctl_kind \in {"smart", "legacy"}
    /\ ctl_config \in EventDrivenConfigs
    /\ collection_window = None
    /\ empty_block_timer =
          IF ctl_config.empty_block_interval_ms.some
          THEN Some(Sleep(0, ctl_config.empty_block_interval_ms.val))
          ELSE None
    /\ pending_transactions = 0
    /\ last_block_time = 0
    /\ network_load_tracker =
          NetworkLoadTrackerNew(ctl_config.transaction_rate_history_size, 0)
    /\ ctl_last = CtlNoCall
    /\ cleared_by = {}
    /\ expired_returns = 0

CtlIdle ==
    /\ CtlInit
    /\ ctl_kind = "smart"
    /\ ctl_config = CHOOSE cfg \in EventDrivenConfigs : TRUE

\* time passes
Tick ==
    /\ now + TickStep <= MaxTime
    /\ now' = now + TickStep
    /\ ctl_last' = CtlNoCall
    /\ UNCHANGED <<ctl_kind, ctl_config, collection_window, empty_block_timer,
                   pending_transactions, last_block_time, network_load_tracker,
                   cleared_by, expired_returns>>

HandlePoolEvent ==
    \E event \in PoolEvents :
        CtlReturn("handle_pool_event", event,
                  IF ctl_kind = "smart"
                  THEN Smart_handle_pool_event(Controller, event)
                  ELSE Legacy_handle_pool_event(Controller, event))

CheckCollectionWindow ==
    CtlReturn("check_collection_window", NoEvent, check_collection_window(Controller))

CheckEmptyBlockTimer ==
    CtlReturn("check_empty_block_timer", NoEvent, check_empty_block_timer(Controller))

RecordBlockProduced ==
    CtlReturn("record_block_produced", NoEvent, record_block_produced(Controller))

CtlNext ==
    \/ Tick /\ UNCHANGED <<det_vars, sw_vars, win_vars, ext_vars>>
    \/ HandlePoolEvent /\ UNCHANGED <<det_vars, sw_vars, win_vars, ext_vars>>
    \/ CheckCollectionWindow /\ UNCHANGED <<det_vars, sw_vars, win_vars, ext_vars>>
    \/ CheckEmptyBlockTimer /\ UNCHANGED <<det_vars, sw_vars, win_vars, ext_vars>>
    \/ RecordBlockProduced /\ UNCHANGED <<det_vars, sw_vars, win_vars, ext_vars>>

(***************************************************************************)
(* BackoffAuthoringOnFinalizedHeadLagging                                  *)
(* Block and slot numbers are far below the width of their types; the      *)
(* arithmetic is on naturals.                                              *)
(***************************************************************************)
MaxSlotNow == 20
MaxInterval == 2
MaxHead == 3

\* a.saturating_sub(b)
SaturatingSub(a, b) == IF a > b THEN a - b ELSE 0

\* strategies with a positive authoring_bias (a bias of 0 divides by zero)
BackoffParams ==
    [max_interval : 1..MaxInterval, unfinalized_slack : {0, 1}, authoring_bias : {1, 2}]

\* the interval of should_backoff without the subtraction of unfinalized_slack
BackoffInterval_NoSlack(param, chain_head_number, finalized) ==
    Min(SaturatingSub(chain_head_number, finalized) \div param.authoring_bias,
        param.max_interval)

\* the interval of should_backoff without the cap of max_interval
BackoffInterval_NoCap(param, chain_head_number, finalized) ==
    SaturatingSub(SaturatingSub(chain_head_number, finalized), param.unfinalized_slack)
        \div param.authoring_bias

\* the interval of should_backoff
BackoffInterval(param, chain_head_number, finalized) ==
    Min(SaturatingSub(SaturatingSub(chain_head_number, finalized), param.unfinalized_slack)
            \div param.authoring_bias,
        param.max_interval)

\* should_backoff without the early return for slot_now <= chain_head_slot
should_backoff_NoEarlyReturn(param, chain_head_number, chain_head_slot, finalized, slot) ==
    slot <= chain_head_slot + BackoffInterval(param, chain_head_number, finalized)

\* BackoffAuthoringOnFinalizedHeadLagging::should_backoff
should_backoff(param, chain_head_number, chain_head_slot, finalized, slot) ==
    IF slot <= chain_head_slot
    THEN FALSE
    ELSE slot <= chain_head_slot + BackoffInterval(param, chain_head_number, finalized)

BoNoCall == [called |-> FALSE, head_number |-> 0, head_slot |-> 0, finalized |-> 0,
             slot_now |-> 0, prev_authored |-> None, ret |-> FALSE]

\* a strategy and a head state, finality stalled at finalized_number
BoInit ==
    /\ bo_param \in BackoffParams
    /\ head_number \in 0..MaxHead
    /\ head_slot \in 0..MaxHead
    /\ finalized_number \in 0..MaxHead
    /\ slot_now \in 0..(MaxHead + MaxInterval + 1)
    /\ last_authored = None
    /\ bo_last = BoNoCall

BoIdle ==
    /\ bo_param = [max_interval |-> 1, unfinalized_slack |-> 0, authoring_bias |-> 1]
    /\ head_number = 0
    /\ head_slot = 0
    /\ finalized_number = 0
    /\ slot_now = 0
    /\ last_authored = None
    /\ bo_last = BoNoCall

\* one slot of the node: should_backoff is asked for the current slot, the block is
\* authored if it says no (HeadState::author_block) and not otherwise
\* (HeadState::dont_author_block)
BoSlot ==
    /\ slot_now < MaxSlotNow
    /\ LET ret == should_backoff(bo_param, head_number, head_slot, finalized_number, slot_now)
       IN  /\ bo_last' = [called |-> TRUE, head_number |-> head_number,
                          head_slot |-> head_slot, finalized |-> finalized_number,
                          slot_now |-> slot_now, prev_authored |-> last_authored,
                          ret |-> ret]
           /\ IF ret
              THEN UNCHANGED <<head_number, head_slot, last_authored>>
              ELSE /\ head_number' = head_number + 1
                   /\ head_slot' = slot_now
                   /\ last_authored' = Some(slot_now)
    /\ slot_now' = slot_now + 1
    /\ UNCHANGED <<bo_param, finalized_number>>

\* strategies of the stalled-finality scenario, max_interval = 0 among them
StalledParams ==
    [max_interval : 0..MaxInterval, unfinalized_slack : {0, 1, 2}, authoring_bias : {1, 2}]

\* finality stalled at finalized_number, the head produced in the slot before slot_now
BoStalledInit ==
    /\ bo_param \in StalledParams
    /\ head_number \in 0..MaxHead
    /\ head_slot \in 0..MaxHead
    /\ finalized_number \in 0..MaxHead
    /\ slot_now = head_slot + 1
    /\ last_authored = None
    /\ bo_last = BoNoCall

\* one slot in which the chain is extended by another author whatever should_backoff
\* answers: the closure of the test should_stop_authoring_if_blocks_are_still_produced_
\* when_finality_stalled
BoSlotHeadAdvances ==
    /\ slot_now < MaxSlotNow
    /\ bo_last' = [called |-> TRUE, head_number |-> head_number, head_slot |-> head_slot,
                   finalized |-> finalized_number, slot_now |-> slot_now,
                   prev_authored |-> last_authored,
                   ret |-> should_backoff(bo_param, head_number, head_slot,
                                          finalized_number, slot_now)]
    /\ head_number' = head_number + 1
    /\ head_slot' = slot_now
    /\ slot_now' = slot_now + 1
    /\ UNCHANGED <<bo_param, finalized_number, last_authored>>

BoStalledNext == BoSlotHeadAdvances /\ UNCHANGED <<det_vars, sw_vars, win_vars, ctl_vars, os_vars, cs_vars, es_vars, le_vars, pl_vars, lt_vars, wl_vars, pe_vars, mo_vars, cd_vars>>

BoNext == BoSlot /\ UNCHANGED <<det_vars, sw_vars, win_vars, ctl_vars, os_vars, cs_vars, es_vars, le_vars, pl_vars, lt_vars, wl_vars, pe_vars, mo_vars, cd_vars>>

(***************************************************************************)
(* SimpleSlotWorker::on_slot                                               *)
(***************************************************************************)
\* the outcomes of the steps of on_slot: the remaining proposing time, aux_data,
\* force_authoring, the sync oracle, authorities_len, claim_slot, should_backoff, the
\* proposer, create_inherent_data and propose ("ok", "err" or "timeout"),
\* block_import_params and import_block
OnSlotInputs ==
    [time_left : BOOLEAN, aux_data_ok : BOOLEAN, force_authoring : BOOLEAN,
     is_offline : BOOLEAN, authorities_len : {None, Some(1), Some(2)},
     claim : BOOLEAN, backoff : BOOLEAN, proposer_ok : BOOLEAN,
     inherent_data : {"ok", "err", "timeout"}, proposing : {"ok", "err", "timeout"},
     import_params_ok : BOOLEAN, import_ok : BOOLEAN]

\* the calls of on_slot with the backoff strategy consulted before the claim
OnSlotCallOrder_BackoffFirst ==
    <<"proposing_remaining_duration", "aux_data", "notify_slot", "authorities_len",
      "should_backoff", "claim_slot", "proposer", "create_inherent_data", "propose",
      "block_import_params", "import_block">>

\* the calls on_slot makes to its collaborators, in the order of the code
OnSlotCallOrder ==
    <<"proposing_remaining_duration", "aux_data", "notify_slot", "authorities_len",
      "claim_slot", "should_backoff", "proposer", "create_inherent_data", "propose",
      "block_import_params", "import_block">>

RECURSIVE IndexOf(_, _, _)
IndexOf(seq, x, i) == IF seq[i] = x THEN i ELSE IndexOf(seq, x, i + 1)

\* the calls made when on_slot returns right after the call named last
CallsUpTo(last) == SubSeq(OnSlotCallOrder, 1, IndexOf(OnSlotCallOrder, last, 1))

\* on_slot returns None after the call named last
OnSlotSkipped(stage, last) ==
    [stage |-> stage, calls |-> CallsUpTo(last), deadline |-> "none", import_calls |-> 0,
     imported |-> FALSE, ret |-> None]

\* the end of on_slot: import_block is called once, its error is logged, and the
\* SlotResult of the built block is returned
OnSlotImport(in) ==
    [stage |-> "import", calls |-> OnSlotCallOrder, deadline |-> "none", import_calls |-> 1,
     imported |-> in.import_ok, ret |-> Some("block")]

\* SimpleSlotWorker::propose that takes a result arriving after the deadline
propose_AwaitLate(in) == in.inherent_data # "err" /\ in.proposing # "err"

\* SimpleSlotWorker::propose with create_inherent_data: whether a proposal is made
propose(in) == in.inherent_data = "ok" /\ in.proposing = "ok"

\* on_slot that never waits for the network
WaitingForNetwork_Never(in) == FALSE

\* the test of on_slot for "Waiting for the network"
WaitingForNetwork(in) ==
    /\ ~in.force_authoring
    /\ in.is_offline
    /\ in.authorities_len.some
    /\ in.authorities_len.val > 1

\* SimpleSlotWorker::on_slot
on_slot(in) ==
    IF ~in.time_left THEN OnSlotSkipped("no-time-left", "proposing_remaining_duration")
    ELSE IF ~in.aux_data_ok THEN OnSlotSkipped("aux-data-error", "aux_data")
    ELSE IF WaitingForNetwork(in) THEN OnSlotSkipped("waiting-for-network", "authorities_len")
    ELSE IF ~in.claim THEN OnSlotSkipped("no-claim", "claim_slot")
    ELSE IF in.backoff THEN OnSlotSkipped("backoff", "should_backoff")
    ELSE IF ~in.proposer_ok THEN OnSlotSkipped("proposer-error", "proposer")
    ELSE IF ~propose(in)
         THEN IF in.inherent_data = "ok"
              THEN [OnSlotSkipped("propose", "propose") EXCEPT
                      !.deadline = IF in.proposing = "timeout" THEN "propose" ELSE "none"]
              ELSE [OnSlotSkipped("propose", "create_inherent_data") EXCEPT
                      !.deadline = IF in.inherent_data = "timeout"
                                   THEN "create_inherent_data" ELSE "none"]
    ELSE IF ~in.import_params_ok
         THEN OnSlotSkipped("import-params-error", "block_import_params")
    ELSE OnSlotImport(in)

OsNoCall == [called |-> FALSE, stage |-> "none", calls |-> <<>>, deadline |-> "none",
             import_calls |-> 0, imported |-> FALSE, ret |-> None]

\* what on_slot meets in the slots after the first: the steps up to the proposer succeed
NextSlotInputs ==
    [time_left : {TRUE}, aux_data_ok : {TRUE}, force_authoring : {TRUE},
     is_offline : {FALSE}, authorities_len : {Some(2)},
     claim : {TRUE}, backoff : {FALSE}, proposer_ok : {TRUE},
     inherent_data : {"ok", "err", "timeout"}, proposing : {"ok", "err", "timeout"},
     import_params_ok : {TRUE}, import_ok : BOOLEAN]

MaxOnSlotCalls == 2

OsInit ==
    /\ os_in \in OnSlotInputs
    /\ os_out = OsNoCall
    /\ os_prev = OsNoCall
    /\ os_count = 0

OsIdle ==
    /\ os_in = [time_left |-> FALSE, aux_data_ok |-> FALSE, force_authoring |-> FALSE,
                is_offline |-> FALSE, authorities_len |-> None, claim |-> FALSE,
                backoff |-> FALSE, proposer_ok |-> FALSE, inherent_data |-> "ok",
                proposing |-> "ok", import_params_ok |-> FALSE, import_ok |-> FALSE]
    /\ os_out = OsNoCall
    /\ os_prev = OsNoCall
    /\ os_count = 0

\* the authoring loop calls worker.on_slot(slot_info)
OnSlot ==
    /\ ~os_out.called
    /\ LET r == on_slot(os_in)
       IN  os_out' = [called |-> TRUE, stage |-> r.stage, calls |-> r.calls,
                      deadline |-> r.deadline, import_calls |-> r.import_calls, imported |-> r.imported,
                      ret |-> r.ret]
    /\ os_count' = os_count + 1
    /\ UNCHANGED <<os_in, os_prev>>

\* the next slot arrives: the loop comes round with a new slot_info
NextSlot ==
    /\ os_out.called
    /\ os_count < MaxOnSlotCalls
    /\ os_prev' = os_out
    /\ os_out' = OsNoCall
    /\ os_in' \in NextSlotInputs
    /\ UNCHANGED os_count

OsNext ==
    \/ OnSlot /\ UNCHANGED <<det_vars, sw_vars, win_vars, ctl_vars, bo_vars, cs_vars, es_vars, le_vars, pl_vars, lt_vars, wl_vars, pe_vars, mo_vars, cd_vars>>
    \/ NextSlot /\ UNCHANGED <<det_vars, sw_vars, win_vars, ctl_vars, bo_vars, cs_vars, es_vars, le_vars, pl_vars, lt_vars, wl_vars, pe_vars, mo_vars, cd_vars>>

(***************************************************************************)
(* MiccWorker::claim_slot                                                  *)
(***************************************************************************)
MaxAuthorities == 3
MaxClaimSlot == 4

\* authority keys; the keystore may hold keys of none, some or all of them
ClaimKeys == {1, 2, 3}

\* authority sets: the sequences of at most MaxAuthorities keys
AuthoritySets == UNION {[1..n -> ClaimKeys] : n \in 0..MaxAuthorities}

\* the index of the first authority whose key the keystore holds, 0 if there is none
RECURSIVE FirstHeld(_, _, _)
FirstHeld(authorities, keystore, i) ==
    IF i > Len(authorities) THEN 0
    ELSE IF authorities[i] \in keystore THEN i
    ELSE FirstHeld(authorities, keystore, i + 1)

\* the force-authoring branch returning the first authority without asking the keystore
ForceClaim_NoKeyCheck(authorities, keystore) ==
    IF authorities = <<>> THEN None ELSE Some(authorities[1])

\* the force-authoring branch of MiccWorker::claim_slot
ForceClaim(authorities, keystore) ==
    LET i == FirstHeld(authorities, keystore, 1)
    IN  IF i = 0 THEN None ELSE Some(authorities[i])

\* standalone::slot_author: the authority at index slot mod (number of authorities)
slot_author(slot, authorities) ==
    IF authorities = <<>> THEN None
    ELSE Some(authorities[(slot % Len(authorities)) + 1])

\* standalone::claim_slot: the slot's author if the keystore holds its key
StandaloneClaimSlot(slot, authorities, keystore) ==
    LET expected_author == slot_author(slot, authorities)
    IN  IF expected_author.some /\ expected_author.val \in keystore
        THEN expected_author
        ELSE None

\* MiccWorker::claim_slot
claim_slot(force_authoring, keystore, slot, authorities) ==
    IF force_authoring
    THEN ForceClaim(authorities, keystore)
    ELSE StandaloneClaimSlot(slot, authorities, keystore)

CsInit ==
    /\ cs_in \in [force_authoring : BOOLEAN, keystore : SUBSET ClaimKeys,
                  slot : 0..MaxClaimSlot, authorities : AuthoritySets]
    /\ cs_out = [called |-> FALSE, ret |-> None]

CsIdle ==
    /\ cs_in = [force_authoring |-> FALSE, keystore |-> {}, slot |-> 0, authorities |-> <<>>]
    /\ cs_out = [called |-> FALSE, ret |-> None]

\* on_slot calls self.claim_slot(&slot_info.chain_head, slot, &aux_data)
ClaimSlot ==
    /\ ~cs_out.called
    /\ cs_out' = [called |-> TRUE,
                  ret |-> claim_slot(cs_in.force_authoring, cs_in.keystore, cs_in.slot,
                                     cs_in.authorities)]
    /\ UNCHANGED cs_in

CsNext == ClaimSlot /\ UNCHANGED <<det_vars, sw_vars, win_vars, ctl_vars, bo_vars, os_vars, es_vars, le_vars, pl_vars, lt_vars, wl_vars, pe_vars, mo_vars, cd_vars>>

(***************************************************************************)
(* create_true_event_driven_stream: the event source                       *)
(***************************************************************************)
MaxReady == 2
MaxNotifications == 2
MaxEsTime == 1000000
MaxDelivered == 5

BackupPeriod == Millis(500)

\* the pool: empty, or ready transactions with a highest priority below or at the maximum
PoolStates ==
    {[ready |-> 0, priority |-> 0]}
    \cup [ready : 1..MaxReady, priority : {1, TransactionPriorityMAX}]

\* calculate_collection_duration
calculate_collection_duration(cfg, tx_count) ==
    LET duration == IF tx_count > 50 THEN cfg.collection.min_collection_time
                    ELSE IF tx_count > 10 THEN Millis(1000)
                    ELSE cfg.collection.max_collection_time
    IN  Clamp(duration, cfg.collection.min_collection_time,
              cfg.collection.max_collection_time)

\* the unfold closure's result: the trigger and the new last_status and collection_timer
Decision(trigger, status, timer) ==
    [trigger |-> trigger, last_status |-> status, collection_timer |-> timer]

\* the import arm of the select! for Some(hash)
OnImport(cfg, pool, timer, t) ==
    IF pool.ready > 0
    THEN IF pool.priority >= cfg.collection.priority_threshold
         THEN Decision("CreateBlock", pool.ready, None)
         ELSE IF ~timer.some
              THEN IF pool.ready >= cfg.collection.max_batch_size
                   THEN Decision("CreateBlock", pool.ready, None)
                   ELSE Decision("NoAction", pool.ready,
                                 Some(t + calculate_collection_duration(cfg, pool.ready)))
              ELSE Decision("NoAction", pool.ready, timer)
    ELSE Decision("NoAction", pool.ready, timer)

\* the backup arm with a window that produces as soon as a check finds transactions
OnBackup_EmitBeforeDeadline(cfg, pool, status, timer, t) ==
    IF timer.some /\ pool.ready > 0
    THEN Decision("CreateBlock", pool.ready, None)
    ELSE LET timer1 == IF timer.some /\ t >= timer.val THEN None ELSE timer
         IN  IF pool.ready # status
             THEN IF pool.ready > 0 /\ ~timer1.some
                  THEN IF pool.priority >= cfg.collection.priority_threshold
                       THEN Decision("CreateBlock", pool.ready, timer1)
                       ELSE Decision("NoAction", pool.ready,
                                     Some(t + calculate_collection_duration(cfg, pool.ready)))
                  ELSE IF pool.ready = 0 /\ timer1.some
                       THEN Decision("NoAction", pool.ready, None)
                       ELSE Decision("NoAction", pool.ready, timer1)
             ELSE Decision("NoAction", status, timer1)

\* the backup arm of the select!
OnBackup(cfg, pool, status, timer, t) ==
    IF timer.some /\ t >= timer.val /\ pool.ready > 0
    THEN Decision("CreateBlock", pool.ready, None)
    ELSE LET timer1 == IF timer.some /\ t >= timer.val THEN None ELSE timer
         IN  IF pool.ready # status
             THEN IF pool.ready > 0 /\ ~timer1.some
                  THEN IF pool.priority >= cfg.collection.priority_threshold
                       THEN Decision("CreateBlock", pool.ready, timer1)
                       ELSE Decision("NoAction", pool.ready,
                                     Some(t + calculate_collection_duration(cfg, pool.ready)))
                  ELSE IF pool.ready = 0 /\ timer1.some
                       THEN Decision("NoAction", pool.ready, None)
                       ELSE Decision("NoAction", pool.ready, timer1)
             ELSE Decision("NoAction", status, timer1)

\* a filter that forwards every trigger
FilterMap_PassAll(trigger) == Some(trigger)

\* the closure of filter_map: CreateBlock is forwarded, NoAction is dropped
FilterMap(trigger) == IF trigger = "CreateBlock" THEN Some("CreateBlock") ELSE None

\* es_delivered keeps the last MaxDelivered items
KeepLast(items) == IF Len(items) > MaxDelivered THEN Tail(items) ELSE items

EsNoRun == [arm |-> "none", trigger |-> "NoAction", ready |-> 0, full |-> FALSE,
            pre_window |-> FALSE, pre_expired |-> FALSE, changed |-> FALSE,
            expiry_emits |-> 0]

\* the stream yields the decision d taken by the arm of the select! named arm
Yield(arm, d) ==
    /\ es_last' = [arm |-> arm, trigger |-> d.trigger, ready |-> es_pool.ready,
                   full |-> es_pool.ready >= es_config.collection.max_batch_size,
                   pre_window |-> collection_timer.some,
                   pre_expired |-> collection_timer.some /\ es_now >= collection_timer.val,
                   changed |-> es_pool.ready # last_status,
                   expiry_emits |->
                      IF d.collection_timer.some /\ d.collection_timer # collection_timer
                      THEN 0
                      ELSE IF arm = "backup" /\ collection_timer.some
                                             /\ d.trigger = "CreateBlock"
                           THEN es_last.expiry_emits + 1
                           ELSE es_last.expiry_emits]
    /\ last_status' = d.last_status
    /\ collection_timer' = d.collection_timer
    /\ es_delivered' = IF FilterMap(d.trigger).some
                       THEN KeepLast(Append(es_delivered, FilterMap(d.trigger).val))
                       ELSE es_delivered
    /\ es_noaction_seen' = (es_noaction_seen \/ d.trigger = "NoAction")

\* create_true_event_driven_stream(pool, config)
EsInit ==
    /\ es_config \in EventDrivenConfigs
    /\ es_now = 0
    /\ es_pool \in PoolStates
    /\ es_notifications = 0
    /\ es_sent = 0
    /\ es_feed_ended = FALSE
    /\ last_status = es_pool.ready
    /\ collection_timer = None
    /\ backup_interval = 0
    /\ es_ended = FALSE
    /\ es_delivered = <<>>
    /\ es_noaction_seen = FALSE
    /\ es_last = EsNoRun

EsIdle ==
    /\ es_config = CHOOSE cfg \in EventDrivenConfigs : TRUE
    /\ es_now = 0
    /\ es_pool = [ready |-> 0, priority |-> 0]
    /\ es_notifications = 0
    /\ es_sent = 0
    /\ es_feed_ended = FALSE
    /\ last_status = 0
    /\ collection_timer = None
    /\ backup_interval = 0
    /\ es_ended = FALSE
    /\ es_delivered = <<>>
    /\ es_noaction_seen = FALSE
    /\ es_last = EsNoRun

\* time passes
EsTick ==
    /\ es_now + BackupPeriod <= MaxEsTime
    /\ es_now' = es_now + BackupPeriod
    /\ UNCHANGED <<es_config, es_pool, es_notifications, es_sent, es_feed_ended,
                   last_status, collection_timer, backup_interval, es_ended, es_delivered,
                   es_noaction_seen, es_last>>

\* the pool changes, with or without an import notification
PoolChanges ==
    /\ \E p \in PoolStates \ {es_pool} : es_pool' = p
    /\ \/ /\ ~es_feed_ended
          /\ es_sent < MaxNotifications
          /\ es_notifications' = es_notifications + 1
          /\ es_sent' = es_sent + 1
       \/ UNCHANGED <<es_notifications, es_sent>>
    /\ UNCHANGED <<es_config, es_now, es_feed_ended, last_status, collection_timer,
                   backup_interval, es_ended, es_delivered, es_noaction_seen, es_last>>

\* the import notification stream ends
FeedEnds ==
    /\ ~es_feed_ended
    /\ es_feed_ended' = TRUE
    /\ UNCHANGED <<es_config, es_now, es_pool, es_notifications, es_sent, last_status,
                   collection_timer, backup_interval, es_ended, es_delivered,
                   es_noaction_seen, es_last>>

\* select!: import_stream.next() yields Some(hash)
ImportNotified ==
    /\ ~es_ended
    /\ es_notifications > 0
    /\ es_notifications' = es_notifications - 1
    /\ Yield("import", OnImport(es_config, es_pool, collection_timer, es_now))
    /\ UNCHANGED <<es_config, es_now, es_pool, es_sent, es_feed_ended, backup_interval,
                   es_ended>>

\* select!: import_stream.next() yields None: the arm falls through to the closure's
\* final None, which ends the unfold stream
ImportStreamEnded ==
    /\ ~es_ended
    /\ es_notifications = 0
    /\ es_feed_ended
    /\ es_ended' = TRUE
    /\ UNCHANGED <<es_config, es_now, es_pool, es_notifications, es_sent, es_feed_ended,
                   last_status, collection_timer, backup_interval, es_delivered,
                   es_noaction_seen, es_last>>

\* select!: backup_interval.tick() completes
BackupTick ==
    /\ ~es_ended
    /\ es_now >= backup_interval
    /\ backup_interval' = backup_interval + BackupPeriod
    /\ Yield("backup", OnBackup(es_config, es_pool, last_status, collection_timer, es_now))
    /\ UNCHANGED <<es_config, es_now, es_pool, es_notifications, es_sent, es_feed_ended,
                   es_ended>>

EsNext ==
    \/ EsTick /\ UNCHANGED <<det_vars, sw_vars, win_vars, ctl_vars, bo_vars, os_vars, cs_vars, le_vars, pl_vars, lt_vars, wl_vars, pe_vars, mo_vars, cd_vars>>
    \/ PoolChanges /\ UNCHANGED <<det_vars, sw_vars, win_vars, ctl_vars, bo_vars, os_vars, cs_vars, le_vars, pl_vars, lt_vars, wl_vars, pe_vars, mo_vars, cd_vars>>
    \/ FeedEnds /\ UNCHANGED <<det_vars, sw_vars, win_vars, ctl_vars, bo_vars, os_vars, cs_vars, le_vars, pl_vars, lt_vars, wl_vars, pe_vars, mo_vars, cd_vars>>
    \/ ImportNotified /\ UNCHANGED <<det_vars, sw_vars, win_vars, ctl_vars, bo_vars, os_vars, cs_vars, le_vars, pl_vars, lt_vars, wl_vars, pe_vars, mo_vars, cd_vars>>
    \/ ImportStreamEnded /\ UNCHANGED <<det_vars, sw_vars, win_vars, ctl_vars, bo_vars, os_vars, cs_vars, le_vars, pl_vars, lt_vars, wl_vars, pe_vars, mo_vars, cd_vars>>
    \/ BackupTick /\ UNCHANGED <<det_vars, sw_vars, win_vars, ctl_vars, bo_vars, os_vars, cs_vars, le_vars, pl_vars, lt_vars, wl_vars, pe_vars, mo_vars, cd_vars>>

\* time passes after the last instant of the clock: a backup period later all instants are
\* counted from a period later as well, so the clock shows the same instant and the
\* deadlines are a period nearer
EsTickLate ==
    /\ es_now = MaxEsTime
    /\ backup_interval > es_now
    /\ backup_interval' = backup_interval - BackupPeriod
    /\ collection_timer' = IF collection_timer.some
                           THEN Some(collection_timer.val - BackupPeriod)
                           ELSE None
    /\ UNCHANGED <<es_config, es_now, es_pool, es_notifications, es_sent, es_feed_ended,
                   last_status, es_ended, es_delivered, es_noaction_seen, es_last>>

\* the other components do not move while the event source runs
EsOnly == UNCHANGED <<det_vars, sw_vars, win_vars, ctl_vars, bo_vars, os_vars, cs_vars, le_vars, pl_vars, lt_vars, wl_vars, pe_vars, mo_vars, cd_vars>>

\* the event source running without an end of time
EsFairNext ==
    \/ EsTick /\ EsOnly
    \/ EsTickLate /\ EsOnly
    \/ PoolChanges /\ EsOnly
    \/ FeedEnds /\ EsOnly
    \/ ImportNotified /\ EsOnly
    \/ ImportStreamEnded /\ EsOnly
    \/ BackupTick /\ EsOnly

(***************************************************************************)
(* slot_lenience_exponential and slot_lenience_linear                      *)
(***************************************************************************)
MaxParentSlot == 3
MaxLenienceSlot == 26

ExponentialBackoffCap == 7
ExponentialBackoffStep == 2
LinearBackoffCap == 20

\* slot durations in milliseconds
SlotDurations == {1, 6000}

\* 1 << n
RECURSIVE ShiftLeftOne(_)
ShiftLeftOne(n) == IF n = 0 THEN 1 ELSE 2 * ShiftLeftOne(n - 1)

\* slot_info.slot.saturating_sub(parent_slot + 1)
skipped_slots(parent_slot, slot) == SaturatingSub(slot, parent_slot + 1)

\* slot_lenience_exponential without the cap of the exponent
slot_lenience_exponential_NoCap(parent_slot, slot, duration) ==
    IF skipped_slots(parent_slot, slot) = 0
    THEN None
    ELSE Some(ShiftLeftOne(skipped_slots(parent_slot, slot) \div ExponentialBackoffStep)
                * duration)

\* slot_lenience_exponential
slot_lenience_exponential(parent_slot, slot, duration) ==
    IF skipped_slots(parent_slot, slot) = 0
    THEN None
    ELSE LET slot_lenience ==
                 Min(skipped_slots(parent_slot, slot) \div ExponentialBackoffStep,
                     ExponentialBackoffCap)
         IN  Some(ShiftLeftOne(slot_lenience) * duration)

\* slot_lenience_linear
slot_lenience_linear(parent_slot, slot, duration) ==
    IF skipped_slots(parent_slot, slot) = 0
    THEN None
    ELSE Some(duration * Min(skipped_slots(parent_slot, slot), LinearBackoffCap))

LeInit ==
    /\ le_in \in [parent_slot : 0..MaxParentSlot, slot : 0..MaxLenienceSlot,
                  duration : SlotDurations]
    /\ le_out = [called |-> FALSE, exponential |-> None, linear |-> None]

LeIdle ==
    /\ le_in = [parent_slot |-> 0, slot |-> 0, duration |-> 1]
    /\ le_out = [called |-> FALSE, exponential |-> None, linear |-> None]

\* a caller asks for the lenience of the slot, under both strategies
SlotLenience ==
    /\ ~le_out.called
    /\ le_out' = [called |-> TRUE,
                  exponential |-> slot_lenience_exponential(le_in.parent_slot, le_in.slot,
                                                            le_in.duration),
                  linear |-> slot_lenience_linear(le_in.parent_slot, le_in.slot,
                                                  le_in.duration)]
    /\ UNCHANGED le_in

LeNext ==
    SlotLenience /\ UNCHANGED <<det_vars, sw_vars, win_vars, ctl_vars, bo_vars, os_vars, cs_vars, es_vars, pl_vars, lt_vars, wl_vars, pe_vars, mo_vars, cd_vars>>

(***************************************************************************)
(* The pallet: Pallet::on_initialize                                       *)
(***************************************************************************)
MaxPalletSlot == 3
MaxBlocks == 3
MaxPalletAuthorities == 2

PlNoCall == [called |-> FALSE, before |-> 0, blocks_before |-> 0, new_slot |-> None, assigned_disabled |-> FALSE, events |-> {}, weight |-> "none"]

\* T::DisabledValidators::is_disabled(new_slot % n_authorities), false when the length of
\* Authorities cannot be decoded
AssignedDisabled(new_slot, decode_len, disabled) ==
    decode_len.some /\ (new_slot % decode_len.val) \in disabled

\* the branch of on_initialize that runs after CurrentSlot was put
AfterPut(new_slot, decode_len, disabled) ==
    IF decode_len.some
    THEN IF (new_slot % decode_len.val) \in disabled
         THEN [events |-> {"DisabledValidatorAttempt", "ConsensusErrorRecovered"},
               weight |-> "reads(1)"]
         ELSE [events |-> {}, weight |-> "reads_writes(2, 1)"]
    ELSE [events |-> {"AuthoritiesDecodeError", "ConsensusErrorRecovered"},
          weight |-> "reads(1)"]

\* whether on_initialize returns before CurrentSlot is put: the test of the slot
SlotFails(allow, current_slot, new_slot) ==
    IF allow THEN current_slot > new_slot ELSE current_slot >= new_slot

PlInit ==
    /\ CurrentSlot = 0
    /\ AllowMultipleBlocksPerSlot \in BOOLEAN
    /\ pl_blocks = <<>>
    /\ pl_last = PlNoCall

PlIdle ==
    /\ CurrentSlot = 0
    /\ AllowMultipleBlocksPerSlot = FALSE
    /\ pl_blocks = <<>>
    /\ pl_last = PlNoCall

\* Pallet::on_initialize for a block whose digest holds no slot of this engine: the
\* function does nothing
OnInitializeNoDigest ==
    /\ Len(pl_blocks) < MaxBlocks
    /\ pl_last' = [PlNoCall EXCEPT !.called = TRUE, !.before = CurrentSlot,
                                   !.blocks_before = Len(pl_blocks), !.weight = "reads(1)"]
    /\ pl_blocks' = Append(pl_blocks, None)
    /\ UNCHANGED <<CurrentSlot, AllowMultipleBlocksPerSlot>>

\* Pallet::on_initialize for a block whose digest holds new_slot.  The function returns in
\* every case: it never panics, so the block goes on to be executed.
OnInitialize(new_slot, decode_len, disabled) ==
    /\ Len(pl_blocks) < MaxBlocks
    /\ pl_blocks' = Append(pl_blocks, Some(new_slot))
    /\ IF SlotFails(AllowMultipleBlocksPerSlot, CurrentSlot, new_slot)
       THEN /\ pl_last' = [called |-> TRUE, before |-> CurrentSlot,
                           blocks_before |-> Len(pl_blocks), new_slot |-> Some(new_slot),
                           assigned_disabled |-> AssignedDisabled(new_slot, decode_len, disabled),
                           events |-> {"SlotValidationFailed", "ConsensusErrorRecovered"},
                           weight |-> "reads(1)"]
            /\ UNCHANGED CurrentSlot
       ELSE /\ CurrentSlot' = new_slot
            /\ pl_last' = [called |-> TRUE, before |-> CurrentSlot,
                           blocks_before |-> Len(pl_blocks), new_slot |-> Some(new_slot),
                           assigned_disabled |-> AssignedDisabled(new_slot, decode_len, disabled),
                           events |-> AfterPut(new_slot, decode_len, disabled).events,
                           weight |-> AfterPut(new_slot, decode_len, disabled).weight]
    /\ UNCHANGED AllowMultipleBlocksPerSlot

PlNext ==
    \/ OnInitializeNoDigest /\ UNCHANGED <<det_vars, sw_vars, win_vars, ctl_vars, bo_vars, os_vars, cs_vars, es_vars, le_vars, lt_vars, wl_vars, pe_vars, mo_vars, cd_vars>>
    \/ (\E new_slot \in 0..MaxPalletSlot, decode_len \in {None} \cup {Some(n) : n \in 1..MaxPalletAuthorities}, disabled \in SUBSET (0..(MaxPalletAuthorities - 1)) : OnInitialize(new_slot, decode_len, disabled)) /\ UNCHANGED <<det_vars, sw_vars, win_vars, ctl_vars, bo_vars, os_vars, cs_vars, es_vars, le_vars, lt_vars, wl_vars, pe_vars, mo_vars, cd_vars>>

(***************************************************************************)
(* A NetworkLoadTracker fed with transactions, as in test_network_load_tracker *)
(***************************************************************************)
MaxLtTime == 1200000
MaxRecorded == 6
LtHistorySize == 100
LtTickStep == Millis(200)

get_tps(tr) == tr.current_tps

LtInit ==
    /\ lt_tracker = NetworkLoadTrackerNew(LtHistorySize, 0)
    /\ lt_now = 0
    /\ lt_first = None
    /\ lt_recorded = 0

LtIdle == LtInit

\* time passes
LtTick ==
    /\ lt_now + LtTickStep <= MaxLtTime
    /\ lt_now' = lt_now + LtTickStep
    /\ UNCHANGED <<lt_tracker, lt_first, lt_recorded>>

\* tracker.record_transaction()
RecordTransaction ==
    /\ lt_recorded < MaxRecorded
    /\ lt_tracker' = record_transaction(lt_tracker, lt_now)
    /\ lt_first' = IF lt_first.some THEN lt_first ELSE Some(lt_now)
    /\ lt_recorded' = lt_recorded + 1
    /\ UNCHANGED lt_now

LtNext ==
    \/ LtTick /\ UNCHANGED <<det_vars, sw_vars, win_vars, ctl_vars, bo_vars, os_vars, cs_vars, es_vars, le_vars, pl_vars, wl_vars, pe_vars, mo_vars, cd_vars>>
    \/ RecordTransaction /\ UNCHANGED <<det_vars, sw_vars, win_vars, ctl_vars, bo_vars, os_vars, cs_vars, es_vars, le_vars, pl_vars, wl_vars, pe_vars, mo_vars, cd_vars>>


(***************************************************************************)
(* A SmartCollectionWindow over its life: update_priority and is_expired   *)
(***************************************************************************)
MaxWlTime == 240000
WlTickStep == Millis(30)

WlConfigs ==
    {[min_collection_time |-> Millis(100), max_collection_time |-> Millis(400),
      max_batch_size |-> 2, priority_threshold |-> th, enable_adaptive_timing |-> ad] :
        th \in {MaxPriority - 1, MaxPriority}, ad \in BOOLEAN}

WlNoCall == [called |-> FALSE, priority |-> 1, at |-> 0, pre |-> None]

\* SmartCollectionWindow::new(config, 1, highest_priority, 0.0, priority_triggered)
WlInit ==
    /\ wl_config \in WlConfigs
    /\ \E highest_priority \in OptPriorities, priority_triggered \in BOOLEAN :
          wl_window = SmartCollectionWindowNew(wl_config, 1, highest_priority, TpsZero,
                                               priority_triggered, 0).val
    /\ wl_now = 0
    /\ wl_last = WlNoCall

WlIdle ==
    /\ wl_config = [min_collection_time |-> Millis(100), max_collection_time |-> Millis(400),
                    max_batch_size |-> 2, priority_threshold |-> MaxPriority,
                    enable_adaptive_timing |-> FALSE]
    /\ wl_window = [started_at |-> 0, duration |-> Millis(400), initial_tx_count |-> 1,
                    highest_priority |-> None, network_load |-> TpsZero,
                    timer |-> Millis(400), priority_triggered |-> FALSE]
    /\ wl_now = 0
    /\ wl_last = WlNoCall

\* time passes
WlTick ==
    /\ wl_now < MaxWlTime
    /\ wl_now' = wl_now + WlTickStep
    /\ UNCHANGED <<wl_config, wl_window, wl_last>>

\* a caller runs window.update_priority(priority, config)
UpdatePriority ==
    \E priority \in Priorities :
        /\ wl_window' = update_priority(wl_window, priority, wl_config, wl_now)
        /\ wl_last' = [called |-> TRUE, priority |-> priority, at |-> wl_now,
                       pre |-> Some(wl_window)]
        /\ UNCHANGED <<wl_config, wl_now>>

WlNext ==
    \/ WlTick /\ UNCHANGED <<det_vars, sw_vars, win_vars, ctl_vars, bo_vars, os_vars, cs_vars, es_vars, le_vars, pl_vars, lt_vars, pe_vars, mo_vars, cd_vars>>
    \/ UpdatePriority /\ UNCHANGED <<det_vars, sw_vars, win_vars, ctl_vars, bo_vars, os_vars, cs_vars, es_vars, le_vars, pl_vars, lt_vars, pe_vars, mo_vars, cd_vars>>


(***************************************************************************)
(* The pallet's equivocation calls                                         *)
(***************************************************************************)
MaxPeCalls == 5
PeAuthorities == {1, 2}
Origins == {"signed", "root", "none"}

PeNoCall == [call |-> "none", origin |-> "none", authority |-> 1, ok |-> FALSE,
             pre_counts |-> [a \in PeAuthorities |-> 0], pre_disabled |-> {}]

\* the record of a dispatched call
PeCall(call, origin, authority, ok) ==
    [call |-> call, origin |-> origin, authority |-> authority, ok |-> ok,
     pre_counts |-> SessionEquivocations, pre_disabled |-> DisabledAuthorities]

\* genesis: no counts, no disabled authority, EquivocationConfig::default()
PeInit ==
    /\ SessionEquivocations = [a \in PeAuthorities |-> 0]
    /\ DisabledAuthorities = {}
    /\ enable_slashing = FALSE
    /\ pe_due = {}
    /\ pe_last = PeNoCall
    /\ pe_calls = 0

PeIdle ==
    /\ SessionEquivocations = [a \in PeAuthorities |-> 0]
    /\ DisabledAuthorities = {}
    /\ enable_slashing = FALSE
    /\ pe_due = {}
    /\ pe_last = PeNoCall
    /\ pe_calls = 0

\* Pallet::set_equivocation_slashing(origin, enable)
set_equivocation_slashing(origin, enable) ==
    /\ pe_calls < MaxPeCalls
    /\ pe_calls' = pe_calls + 1
    /\ pe_last' = PeCall("set_equivocation_slashing", origin, 1, origin = "root")
    /\ IF origin = "root"
       THEN enable_slashing' = enable
       ELSE UNCHANGED enable_slashing
    /\ UNCHANGED <<SessionEquivocations, DisabledAuthorities, pe_due>>

\* report_equivocation that disables the offender whatever the configuration says
report_equivocation_AlwaysDisable(origin, offender) ==
    /\ pe_calls < MaxPeCalls
    /\ pe_calls' = pe_calls + 1
    /\ pe_last' = PeCall("report_equivocation", origin, offender, origin = "signed")
    /\ IF origin = "signed"
       THEN /\ SessionEquivocations' = [SessionEquivocations EXCEPT ![offender] = @ + 1]
            /\ DisabledAuthorities' = DisabledAuthorities \cup {offender}
            /\ pe_due' = IF enable_slashing THEN pe_due \cup {offender} ELSE pe_due
       ELSE UNCHANGED <<SessionEquivocations, DisabledAuthorities, pe_due>>
    /\ UNCHANGED enable_slashing

\* Pallet::report_equivocation(origin, report) with report.offender = offender.  The
\* count is a u32 raised by saturating_add(1); the counts of the model stay below
\* MaxPeCalls, far from u32::MAX, where saturating_add(1) adds 1.
report_equivocation(origin, offender) ==
    /\ pe_calls < MaxPeCalls
    /\ pe_calls' = pe_calls + 1
    /\ pe_last' = PeCall("report_equivocation", origin, offender, origin = "signed")
    /\ IF origin = "signed"
       THEN LET new_count == SessionEquivocations[offender] + 1
            IN  /\ SessionEquivocations' = [SessionEquivocations EXCEPT ![offender] = new_count]
                /\ DisabledAuthorities' = IF enable_slashing /\ new_count > 0
                                          THEN DisabledAuthorities \cup {offender}
                                          ELSE DisabledAuthorities
                /\ pe_due' = IF enable_slashing THEN pe_due \cup {offender} ELSE pe_due
       ELSE UNCHANGED <<SessionEquivocations, DisabledAuthorities, pe_due>>
    /\ UNCHANGED enable_slashing

\* Pallet::clear_session_equivocations(origin)
clear_session_equivocations(origin) ==
    /\ pe_calls < MaxPeCalls
    /\ pe_calls' = pe_calls + 1
    /\ pe_last' = PeCall("clear_session_equivocations", origin, 1, origin = "root")
    /\ IF origin = "root"
       THEN SessionEquivocations' = [a \in PeAuthorities |-> 0]
       ELSE UNCHANGED SessionEquivocations
    /\ UNCHANGED <<DisabledAuthorities, enable_slashing, pe_due>>

\* Pallet::enable_authority(origin, authority)
enable_authority(origin, authority) ==
    /\ pe_calls < MaxPeCalls
    /\ pe_calls' = pe_calls + 1
    /\ pe_last' = PeCall("enable_authority", origin, authority, origin = "root")
    /\ IF origin = "root"
       THEN /\ DisabledAuthorities' = DisabledAuthorities \ {authority}
            /\ pe_due' = pe_due \ {authority}
       ELSE UNCHANGED <<DisabledAuthorities, pe_due>>
    /\ UNCHANGED <<SessionEquivocations, enable_slashing>>

PeNext ==
    \/ (\E origin \in Origins, enable \in BOOLEAN : set_equivocation_slashing(origin, enable)) /\ UNCHANGED <<det_vars, sw_vars, win_vars, ctl_vars, bo_vars, os_vars, cs_vars, es_vars, le_vars, pl_vars, lt_vars, wl_vars, mo_vars, cd_vars>>
    \/ (\E origin \in Origins, offender \in PeAuthorities : report_equivocation(origin, offender)) /\ UNCHANGED <<det_vars, sw_vars, win_vars, ctl_vars, bo_vars, os_vars, cs_vars, es_vars, le_vars, pl_vars, lt_vars, wl_vars, mo_vars, cd_vars>>
    \/ (\E origin \in Origins : clear_session_equivocations(origin)) /\ UNCHANGED <<det_vars, sw_vars, win_vars, ctl_vars, bo_vars, os_vars, cs_vars, es_vars, le_vars, pl_vars, lt_vars, wl_vars, mo_vars, cd_vars>>
    \/ (\E origin \in Origins, authority \in PeAuthorities : enable_authority(origin, authority)) /\ UNCHANGED <<det_vars, sw_vars, win_vars, ctl_vars, bo_vars, os_vars, cs_vars, es_vars, le_vars, pl_vars, lt_vars, wl_vars, mo_vars, cd_vars>>


(***************************************************************************)
(* ConsensusMonitor: the operations and the mutexes they take.  Every      *)
(* function is given the set of mutexes its caller holds at the call       *)
(***************************************************************************)
MaxMoCalls == 4
MaxMoTime == 3000000
RecentSlotsCapacity == 100
AnomaliesCapacity == 100
ExpectedBlockTime == Millis(500)
MoTickSteps == {Millis(500), Millis(1000)}
MoSlots == {1, 2}

\* block_time_variance_threshold in percent; max_empty_slots; stall_threshold;
\* metrics_interval; max_metrics_history
MoConfigs ==
    [variance_percent : {40, 50}, max_empty_slots : {2}, stall_threshold : {Millis(1000)},
     metrics_interval : {Millis(1000)}, max_metrics_history : {2}]

\* ConsensusMonitor::new: ConsensusMetrics::default() and empty collections
MoNew ==
    [recent_slots |-> <<>>, slots_seen |-> 0, blocks_produced |-> 0, empty_slots |-> 0,
     last_block_time |-> None, anomalies |-> <<>>, anomalies_detected |-> 0,
     network_health |-> "Healthy", authorities_count |-> 0, last_metrics_time |-> None,
     metrics_history |-> 0, poisoned |-> {}]

\* a function ran to its end / stopped in lock() while its thread held the mutexes held
Ok(st) == [st |-> st, fail |-> "none", held |-> {}]
Fail(st, kind, held) == [st |-> st, fail |-> kind, held |-> held]

\* mutex.lock().unwrap() by a thread that holds the mutexes held: "relock" when the thread
\* holds the mutex already (lock() then does not return: it deadlocks or panics),
\* "poisoned" when a thread panicked while holding it (unwrap panics), "none" otherwise
LockFails(st, held, mutex) ==
    IF mutex \in held THEN "relock"
    ELSE IF mutex \in st.poisoned THEN "poisoned"
    ELSE "none"

\* Vec::push / VecDeque::push_back followed by the removal of the oldest element
PushCapped(seq, x, cap) ==
    IF Len(seq) + 1 > cap THEN Tail(Append(seq, x)) ELSE Append(seq, x)

\* ConsensusMonitor::record_anomaly
record_anomaly(st, held, anomaly) ==
    IF LockFails(st, held, "anomalies") # "none"
    THEN Fail(st, LockFails(st, held, "anomalies"), held)
    ELSE LET st1 == [st EXCEPT !.anomalies = PushCapped(@, anomaly, AnomaliesCapacity)]
         IN  IF LockFails(st1, held, "metrics") # "none"
             THEN Fail(st1, LockFails(st1, held, "metrics"), held)
             ELSE Ok([st1 EXCEPT !.anomalies_detected = @ + 1])

\* |observed - expected| / expected > block_time_variance_threshold
VarianceExceeds(cfg, observed_time) ==
    (IF observed_time >= ExpectedBlockTime THEN observed_time - ExpectedBlockTime
     ELSE ExpectedBlockTime - observed_time) * 100
        > cfg.variance_percent * ExpectedBlockTime

\* ConsensusMonitor::check_block_time_anomaly
check_block_time_anomaly(st, held, cfg, observed_time) ==
    IF VarianceExceeds(cfg, observed_time)
    THEN record_anomaly(st, held, "BlockTimeAnomaly")
    ELSE Ok(st)

\* the number of slots without a block at the end of recent_slots, among the last n
RECURSIVE ConsecutiveEmpty(_, _)
ConsecutiveEmpty(slots, n) ==
    IF n = 0 \/ slots = <<>> \/ slots[Len(slots)].block_produced THEN 0
    ELSE 1 + ConsecutiveEmpty(SubSeq(slots, 1, Len(slots) - 1), n - 1)

\* ConsensusMonitor::check_empty_slot_anomalies
check_empty_slot_anomalies(st, held, cfg) ==
    IF LockFails(st, held, "recent_slots") # "none"
    THEN Fail(st, LockFails(st, held, "recent_slots"), held)
    ELSE LET inside == held \cup {"recent_slots"}
             recent_count == Min(Len(st.recent_slots), cfg.max_empty_slots)
             consecutive_empty == ConsecutiveEmpty(st.recent_slots, recent_count)
         IN  IF recent_count < cfg.max_empty_slots THEN Ok(st)
             ELSE IF consecutive_empty < cfg.max_empty_slots THEN Ok(st)
             ELSE LET r == record_anomaly(st, inside, "EmptySlotSpike")
                  IN  IF r.fail # "none" THEN r
                      ELSE IF LockFails(r.st, inside, "metrics") # "none"
                      THEN Fail(r.st, LockFails(r.st, inside, "metrics"), inside)
                      ELSE Ok([r.st EXCEPT !.empty_slots = @ + consecutive_empty,
                                           !.network_health = "Degraded"])

\* ConsensusMonitor::collect_metrics_snapshot
collect_metrics_snapshot(st, held, cfg) ==
    IF LockFails(st, held, "metrics") # "none"
    THEN Fail(st, LockFails(st, held, "metrics"), held)
    ELSE IF LockFails(st, held, "metrics_history") # "none"
    THEN Fail(st, LockFails(st, held, "metrics_history"), held)
    ELSE Ok([st EXCEPT !.metrics_history = Min(@ + 1, cfg.max_metrics_history)])

\* ConsensusMonitor::maybe_collect_metrics at instant t
maybe_collect_metrics(st, held, cfg, t) ==
    IF LockFails(st, held, "last_metrics_time") # "none"
    THEN Fail(st, LockFails(st, held, "last_metrics_time"), held)
    ELSE IF st.last_metrics_time.some /\ t - st.last_metrics_time.val < cfg.metrics_interval
    THEN Ok(st)
    ELSE collect_metrics_snapshot([st EXCEPT !.last_metrics_time = Some(t)], held, cfg)

\* ConsensusMonitor::record_slot at instant t
record_slot(st, cfg, slot, t) ==
    IF LockFails(st, {}, "recent_slots") # "none"
    THEN Fail(st, LockFails(st, {}, "recent_slots"), {})
    ELSE LET st1 == [st EXCEPT !.recent_slots =
                        PushCapped(@, [slot |-> slot, block_produced |-> FALSE],
                                   RecentSlotsCapacity)]
         IN  IF LockFails(st1, {}, "metrics") # "none"
             THEN Fail(st1, LockFails(st1, {}, "metrics"), {})
             ELSE check_empty_slot_anomalies([st1 EXCEPT !.slots_seen = @ + 1], {}, cfg)

\* recent_slots with block_produced set in the first entry of the slot
RECURSIVE MarkProduced(_, _)
MarkProduced(slots, slot) ==
    IF slots = <<>> THEN <<>>
    ELSE IF Head(slots).slot = slot
         THEN <<[Head(slots) EXCEPT !.block_produced = TRUE]>> \o Tail(slots)
         ELSE <<Head(slots)>> \o MarkProduced(Tail(slots), slot)

\* ConsensusMonitor::record_block_production at instant t.  avg_block_time, a moving
\* average that no branch reads, is left out.
record_block_production(st, cfg, slot, t) ==
    IF LockFails(st, {}, "recent_slots") # "none"
    THEN Fail(st, LockFails(st, {}, "recent_slots"), {})
    ELSE LET st1 == [st EXCEPT !.recent_slots = MarkProduced(@, slot)]
         IN  IF LockFails(st1, {}, "metrics") # "none"
             THEN Fail(st1, LockFails(st1, {}, "metrics"), {})
             ELSE LET st2 == [st1 EXCEPT !.blocks_produced = @ + 1]
                      r == IF st2.last_block_time.some
                           THEN check_block_time_anomaly(st2, {"metrics"}, cfg,
                                                         t - st2.last_block_time.val)
                           ELSE Ok(st2)
                  IN  IF r.fail # "none" THEN r
                      ELSE maybe_collect_metrics([r.st EXCEPT !.last_block_time = Some(t)],
                                                 {}, cfg, t)

\* ConsensusMonitor::update_authority_count
update_authority_count(st, count) ==
    IF LockFails(st, {}, "metrics") # "none"
    THEN Fail(st, LockFails(st, {}, "metrics"), {})
    ELSE IF st.authorities_count > 0 /\ st.authorities_count # count
    THEN LET r == record_anomaly(st, {}, "AuthorityAnomaly")
         IN  IF r.fail # "none" THEN r
             ELSE Ok([r.st EXCEPT !.authorities_count = count])
    ELSE Ok([st EXCEPT !.authorities_count = count])

\* ConsensusMonitor::check_consensus_stall at instant t
check_consensus_stall(st, cfg, t) ==
    IF LockFails(st, {}, "metrics") # "none"
    THEN Fail(st, LockFails(st, {}, "metrics"), {})
    ELSE IF st.last_block_time.some /\ t - st.last_block_time.val > cfg.stall_threshold
    THEN LET r == record_anomaly(st, {}, "ConsensusStall")
         IN  IF r.fail # "none" THEN r
             ELSE Ok([r.st EXCEPT !.network_health = "Critical"])
    ELSE Ok(st)

MoNoCall == [op |-> "none", outcome |-> "completed", fail |-> "none", anomalies_before |-> 0]

MoInit ==
    /\ mo_config \in MoConfigs
    /\ mo_state = MoNew
    /\ mo_now = 0
    /\ mo_status = "running"
    /\ mo_last = MoNoCall
    /\ mo_calls = 0

MoIdle ==
    /\ mo_config = [variance_percent |-> 50, max_empty_slots |-> 2,
                    stall_threshold |-> Millis(1000), metrics_interval |-> Millis(1000),
                    max_metrics_history |-> 2]
    /\ mo_state = MoNew
    /\ mo_now = 0
    /\ mo_status = "running"
    /\ mo_last = MoNoCall
    /\ mo_calls = 0

\* the calling thread runs an operation whose result is r.  A lock() on a mutex the thread
\* holds does not return: the thread deadlocks, or it panics, and then the guards it holds
\* are dropped during unwinding and poison their mutexes; unwrap() on a poisoned mutex
\* panics as well.
MoRun(op, r) ==
    /\ mo_status = "running"
    /\ mo_calls < MaxMoCalls
    /\ mo_calls' = mo_calls + 1
    /\ \E outcome \in (IF r.fail = "none" THEN {"completed"}
                        ELSE IF r.fail = "relock" THEN {"deadlock", "panic"}
                        ELSE {"panic"}) :
          /\ mo_last' = [op |-> op, outcome |-> outcome, fail |-> r.fail,
                         anomalies_before |-> Len(mo_state.anomalies)]
          /\ mo_status' = IF outcome = "deadlock" THEN "deadlock" ELSE "running"
          /\ mo_state' = IF outcome = "panic"
                         THEN [r.st EXCEPT !.poisoned = @ \cup r.held]
                         ELSE r.st
    /\ UNCHANGED <<mo_config, mo_now>>

MoTick ==
    /\ mo_now < MaxMoTime
    /\ \E d \in MoTickSteps : mo_now' = mo_now + d
    /\ UNCHANGED <<mo_config, mo_state, mo_status, mo_last, mo_calls>>

RecordSlot == \E slot \in MoSlots : MoRun("record_slot", record_slot(mo_state, mo_config, slot, mo_now))

RecordBlockProduction == \E slot \in MoSlots : MoRun("record_block_production", record_block_production(mo_state, mo_config, slot, mo_now))

UpdateAuthorityCount == \E count \in {1, 2} : MoRun("update_authority_count", update_authority_count(mo_state, count))

CheckConsensusStall == MoRun("check_consensus_stall", check_consensus_stall(mo_state, mo_config, mo_now))

MoNext ==
    \/ MoTick /\ UNCHANGED <<det_vars, sw_vars, win_vars, ctl_vars, bo_vars, os_vars, cs_vars, es_vars, le_vars, pl_vars, lt_vars, wl_vars, pe_vars, cd_vars>>
    \/ RecordSlot /\ UNCHANGED <<det_vars, sw_vars, win_vars, ctl_vars, bo_vars, os_vars, cs_vars, es_vars, le_vars, pl_vars, lt_vars, wl_vars, pe_vars, cd_vars>>
    \/ RecordBlockProduction /\ UNCHANGED <<det_vars, sw_vars, win_vars, ctl_vars, bo_vars, os_vars, cs_vars, es_vars, le_vars, pl_vars, lt_vars, wl_vars, pe_vars, cd_vars>>
    \/ UpdateAuthorityCount /\ UNCHANGED <<det_vars, sw_vars, win_vars, ctl_vars, bo_vars, os_vars, cs_vars, es_vars, le_vars, pl_vars, lt_vars, wl_vars, pe_vars, cd_vars>>
    \/ CheckConsensusStall /\ UNCHANGED <<det_vars, sw_vars, win_vars, ctl_vars, bo_vars, os_vars, cs_vars, es_vars, le_vars, pl_vars, lt_vars, wl_vars, pe_vars, cd_vars>>


(***************************************************************************)
(* The collection-window duration of the baseline controller and of the    *)
(* event source                                                            *)
(***************************************************************************)
DurationCounts == {0, 1, 10, 11, 25, 50, 51, 100}
DurationFunctions == {"calculate_collection_window_duration", "calculate_collection_duration"}

CdInit ==
    /\ cd_in \in [function : DurationFunctions, collection : CollectionConfigs,
                   tx_count : DurationCounts]
    /\ cd_out = [called |-> FALSE, duration |-> 0]

CdIdle ==
    /\ cd_in = [function |-> "calculate_collection_duration",
                collection |-> CHOOSE c \in CollectionConfigs : TRUE, tx_count |-> 0]
    /\ cd_out = [called |-> FALSE, duration |-> 0]

\* EventDrivenController::calculate_collection_window_duration(tx_count) or
\* calculate_collection_duration(config, tx_count) is called
CalculateDuration ==
    /\ ~cd_out.called
    /\ cd_out' = [called |-> TRUE,
                  duration |->
                      IF cd_in.function = "calculate_collection_window_duration"
                      THEN calculate_collection_window_duration(
                               [config |-> [collection |-> cd_in.collection]], cd_in.tx_count)
                      ELSE calculate_collection_duration(
                               [collection |-> cd_in.collection], cd_in.tx_count)]
    /\ UNCHANGED cd_in

CdNext == CalculateDuration /\ UNCHANGED <<det_vars, sw_vars, win_vars, ctl_vars, bo_vars, os_vars, cs_vars, es_vars, le_vars, pl_vars, lt_vars, wl_vars, pe_vars, mo_vars>>

\* the components added after the controllers, idle
ExtIdle == BoIdle /\ OsIdle /\ CsIdle /\ EsIdle /\ LeIdle /\ PlIdle /\ LtIdle /\ WlIdle /\ PeIdle /\ MoIdle /\ CdIdle

(***************************************************************************)
(* Specifications                                                          *)
(***************************************************************************)
\* a detector with the configuration fixed, for the specifications of the other components
DetIdle == DetInit /\ config = [enable_slashing |-> FALSE, max_reports_per_session |-> 1]

InitDetector == DetInit /\ SwInit /\ WinIdle /\ CtlIdle /\ ExtIdle
SpecDetector == InitDetector /\ [][DetNext]_vars

InitSlotWorker == DetIdle /\ SwInit /\ WinIdle /\ CtlIdle /\ ExtIdle
SpecSlotWorker == InitSlotWorker /\ [][SwNext]_vars

InitWindow == DetIdle /\ SwInit /\ WinInit /\ CtlIdle /\ ExtIdle
SpecWindow == InitWindow /\ [][WinNext]_vars

InitController == DetIdle /\ SwInit /\ WinIdle /\ CtlInit /\ ExtIdle
SpecController == InitController /\ [][CtlNext]_vars

InitBackoff == DetIdle /\ SwInit /\ WinIdle /\ CtlIdle /\ BoInit /\ OsIdle /\ CsIdle /\ EsIdle /\ LeIdle /\ PlIdle /\ LtIdle /\ WlIdle /\ PeIdle /\ MoIdle /\ CdIdle
SpecBackoff == InitBackoff /\ [][BoNext]_vars

InitBackoffStalled == DetIdle /\ SwInit /\ WinIdle /\ CtlIdle /\ BoStalledInit /\ OsIdle /\ CsIdle /\ EsIdle /\ LeIdle /\ PlIdle /\ LtIdle /\ WlIdle /\ PeIdle /\ MoIdle /\ CdIdle
SpecBackoffStalled == InitBackoffStalled /\ [][BoStalledNext]_vars

InitOnSlot == DetIdle /\ SwInit /\ WinIdle /\ CtlIdle /\ BoIdle /\ OsInit /\ CsIdle /\ EsIdle /\ LeIdle /\ PlIdle /\ LtIdle /\ WlIdle /\ PeIdle /\ MoIdle /\ CdIdle
SpecOnSlot == InitOnSlot /\ [][OsNext]_vars

InitClaimSlot == DetIdle /\ SwInit /\ WinIdle /\ CtlIdle /\ BoIdle /\ OsIdle /\ CsInit /\ EsIdle /\ LeIdle /\ PlIdle /\ LtIdle /\ WlIdle /\ PeIdle /\ MoIdle /\ CdIdle
SpecClaimSlot == InitClaimSlot /\ [][CsNext]_vars

InitEventSource == DetIdle /\ SwInit /\ WinIdle /\ CtlIdle /\ BoIdle /\ OsIdle /\ CsIdle /\ EsInit /\ LeIdle /\ PlIdle /\ LtIdle /\ WlIdle /\ PeIdle /\ MoIdle /\ CdIdle
SpecEventSource == InitEventSource /\ [][EsNext]_vars

\* the event source with time going on for ever; the clock goes on and the backup interval
\* ticks every period, as tokio's timers do
InitEventSourceFair == DetIdle /\ SwInit /\ WinIdle /\ CtlIdle /\ BoIdle /\ OsIdle /\ CsIdle /\ EsInit /\ LeIdle /\ PlIdle /\ LtIdle /\ WlIdle /\ PeIdle /\ MoIdle /\ CdIdle
SpecEventSourceFair == InitEventSourceFair /\ [][EsFairNext]_vars /\ WF_vars(EsTick /\ EsOnly) /\ WF_vars(EsTickLate /\ EsOnly) /\ WF_vars(BackupTick /\ EsOnly)

InitLenience == DetIdle /\ SwInit /\ WinIdle /\ CtlIdle /\ BoIdle /\ OsIdle /\ CsIdle /\ EsIdle /\ LeInit /\ PlIdle /\ LtIdle /\ WlIdle /\ PeIdle /\ MoIdle /\ CdIdle
SpecLenience == InitLenience /\ [][LeNext]_vars

InitPallet == DetIdle /\ SwInit /\ WinIdle /\ CtlIdle /\ BoIdle /\ OsIdle /\ CsIdle /\ EsIdle /\ LeIdle /\ PlInit /\ LtIdle /\ WlIdle /\ PeIdle /\ MoIdle /\ CdIdle
SpecPallet == InitPallet /\ [][PlNext]_vars

InitTracker == DetIdle /\ SwInit /\ WinIdle /\ CtlIdle /\ BoIdle /\ OsIdle /\ CsIdle /\ EsIdle /\ LeIdle /\ PlIdle /\ LtInit /\ WlIdle /\ PeIdle /\ MoIdle /\ CdIdle
SpecTracker == InitTracker /\ [][LtNext]_vars

InitWindowLife == DetIdle /\ SwInit /\ WinIdle /\ CtlIdle /\ BoIdle /\ OsIdle /\ CsIdle /\ EsIdle /\ LeIdle /\ PlIdle /\ LtIdle /\ WlInit /\ PeIdle /\ MoIdle /\ CdIdle
SpecWindowLife == InitWindowLife /\ [][WlNext]_vars

InitPalletEquivocation == DetIdle /\ SwInit /\ WinIdle /\ CtlIdle /\ BoIdle /\ OsIdle /\ CsIdle /\ EsIdle /\ LeIdle /\ PlIdle /\ LtIdle /\ WlIdle /\ PeInit /\ MoIdle /\ CdIdle
SpecPalletEquivocation == InitPalletEquivocation /\ [][PeNext]_vars

InitMonitor == DetIdle /\ SwInit /\ WinIdle /\ CtlIdle /\ BoIdle /\ OsIdle /\ CsIdle /\ EsIdle /\ LeIdle /\ PlIdle /\ LtIdle /\ WlIdle /\ PeIdle /\ MoInit /\ CdIdle
SpecMonitor == InitMonitor /\ [][MoNext]_vars

InitDuration == DetIdle /\ SwInit /\ WinIdle /\ CtlIdle /\ BoIdle /\ OsIdle /\ CsIdle /\ EsIdle /\ LeIdle /\ PlIdle /\ LtIdle /\ WlIdle /\ PeIdle /\ MoIdle /\ CdInit
SpecDuration == InitDuration /\ [][CdNext]_vars

(***************************************************************************)
(* EquivocationDetector late in a session: the slot index holds MAX_SLOTS  *)
(* slots, and the report list and the offender table are full or have one  *)
(* place left                                                              *)
(***************************************************************************)
MaxFullCalls == 2
FullBase == 10

\* the author of the block stored for slot s
FullAuthor(s) == IF s - FullBase <= OffenderCapacity + 1 THEN s - FullBase ELSE 1

FullHeader == [number |-> 1, parent |-> 1]
FullHeader2 == [number |-> 1, parent |-> 2]
FullHeaders == {h \in Headers : h.number = FullHeader.number}
\* a slot below and one above the stored slots, and the slots of two authorities that have
\* not equivocated yet
FullSlotIds == {FullBase, FullBase + OffenderCapacity, FullBase + OffenderCapacity + 1,
                FullBase + MAX_SLOTS + 1}
FullAuthorityIds == {OffenderCapacity, OffenderCapacity + 1}

\* the state after check_block has been given one block for each of MAX_SLOTS slots and a
\* second block of the first ReportsCapacity - 1 or ReportsCapacity authorities, each for
\* its own slot
DetFullInit ==
    /\ slot_blocks = [s \in (FullBase + 1)..(FullBase + MAX_SLOTS) |->
                         <<[header |-> FullHeader, author |-> FullAuthor(s)]>>]
    /\ \E r \in {ReportsCapacity - 1, ReportsCapacity} :
          /\ session_equivocations =
                [reports |-> [a \in 1..r |->
                                 [offender |-> a, slot |-> FullBase + a,
                                  block_number |-> FullHeader.number, session_index |-> 1]],
                 offender_counts |-> [a \in 1..r |-> <<a, 1>>]]
          /\ det_submitted =
                {<<s, FullAuthor(s), FullHeader>> : s \in (FullBase + 1)..(FullBase + MAX_SLOTS)}
                \cup {<<FullBase + a, a, FullHeader2>> : a \in 1..r}
    /\ config \in [enable_slashing : {TRUE},
                   max_reports_per_session : {ReportsCapacity, ReportsCapacity + 1}]
    /\ det_last = DetNoCall
    /\ det_earlier = {}
    /\ det_calls = 0

CheckBlockFull ==
    \E header \in FullHeaders, slot \in FullSlotIds, author \in FullAuthorityIds, si \in SessionIndexes :
        /\ det_calls < MaxFullCalls
        /\ check_block(header, slot, author, si)

DetFullNext == CheckBlockFull /\ UNCHANGED <<sw_vars, win_vars, ctl_vars, ext_vars>>

InitDetectorFull == DetFullInit /\ SwInit /\ WinIdle /\ CtlIdle /\ ExtIdle
SpecDetectorFull == InitDetectorFull /\ [][DetFullNext]_vars

(***************************************************************************)
(* Claims about the detector                                               *)
(***************************************************************************)

\* the indexes of the pairs the slot's entry held before the last call that have the
\* call's author and a header other than the call's
DetConflicts ==
    {i \in 1..Len(det_last.pre_entry) :
        /\ det_last.pre_entry[i].author = det_last.author
        /\ det_last.pre_entry[i].header # det_last.header}

\* the count the offender table records for auth, 0 if it has no entry
OffenderCount(auth) ==
    LET i == OffenderIndex(session_equivocations.offender_counts, auth)
    IN  IF i = 0 THEN 0 ELSE session_equivocations.offender_counts[i][2]

\* C1: check_block returns a proof exactly when the slot's entry already held a pair of
\* the same author with a different header; the proof carries the call's slot and author,
\* the stored header as first_header and the new header as second_header; a call that
\* returns None on a slot that already had an entry stores its (header, author) pair.
C1_ProofIffStoredConflict ==
    det_last.op = "check_block" =>
        /\ det_last.ret.some <=> DetConflicts # {}
        /\ det_last.ret.some =>
              /\ det_last.ret.val.slot = det_last.slot
              /\ det_last.ret.val.offender = det_last.author
              /\ det_last.ret.val.second_header = det_last.header
              /\ \A i \in DetConflicts :
                    det_last.ret.val.first_header = det_last.pre_entry[i].header
        /\ (~det_last.ret.some /\ det_last.pre_entry # <<>>) =>
              /\ det_last.slot \in DOMAIN slot_blocks
              /\ slot_blocks[det_last.slot] =
                    Append(det_last.pre_entry,
                           [header |-> det_last.header, author |-> det_last.author])

\* C1 witness: a proof was returned for a slot that also holds another author's header
C1_Witness ==
    /\ det_last.op = "check_block"
    /\ det_last.ret.some
    /\ det_last.ret.val.first_header # det_last.ret.val.second_header
    /\ \E i \in 1..Len(det_last.pre_entry) : det_last.pre_entry[i].author # det_last.author

\* C2: whenever check_block returns a proof, the report list afterwards holds a report
\* for that offender and slot and the offender's recorded count is greater than 0.
C2_NoProofWithoutReport ==
    (det_last.op = "check_block" /\ det_last.ret.some) =>
        /\ \E i \in 1..Len(session_equivocations.reports) :
              /\ session_equivocations.reports[i].offender = det_last.author
              /\ session_equivocations.reports[i].slot = det_last.slot
        /\ OffenderCount(det_last.author) > 0

\* C3: a check_block whose header the same author already submitted for the same slot in
\* this session returns None and leaves the report list and the offender counts unchanged.
C3_ReobservationIdempotent ==
    (/\ det_last.op = "check_block"
     /\ <<det_last.slot, det_last.author, det_last.header>> \in det_last.pre_submitted) =>
        /\ det_last.ret = None
        /\ session_equivocations = det_last.pre_session


\* C17: after new_session the report list, the offender table and the slot index are
\* empty and no authority is slashable; a check_block whose header conflicts only with
\* headers seen before the reset returns None.
C17_NewSessionResets ==
    /\ det_last.op = "new_session" =>
          /\ session_equivocations.reports = <<>>
          /\ session_equivocations.offender_counts = <<>>
          /\ slot_blocks = <<>>
          /\ \A a \in AuthorityIds :
                ~is_authority_slashable(session_equivocations, config, a)
    /\ (/\ det_last.op = "check_block"
        /\ \A h \in Headers :
              <<det_last.slot, det_last.author, h>> \in det_last.pre_submitted =>
                  h = det_last.header) =>
          det_last.ret = None

\* C17 witness: an equivocation was recorded, the session was reset, and a check_block of
\* a header that conflicts with one the same author gave for the slot before the reset
\* returned None
C17_Witness ==
    /\ det_last.op = "check_block"
    /\ det_last.ret = None
    /\ det_last.pre_submitted = {}
    /\ \E h \in Headers :
          /\ h # det_last.header
          /\ <<det_last.slot, det_last.author, h>> \in det_earlier
    /\ <<det_last.slot, det_last.author, det_last.header>> \in det_earlier

CommandOnSlots == SelectSeq(on_slot_log, LAMBDA n : n # 0)

\* C4: at most one on_slot is outstanding at any time, and the on_slot calls made for
\* CreateBlock triggers are made for the 1st, 2nd, ... CreateBlock sent, one call each,
\* all those taken from the stream having been served but the one whose slot is awaited.
C4_OneOnSlotAtATime ==
    /\ on_slot_running <= 1
    /\ \A i \in 1..Len(CommandOnSlots) : CommandOnSlots[i] = i
    /\ Len(CommandOnSlots) =
          taken - (IF sw_pc = "next_slot" /\ sw_branch = "command" THEN 1 ELSE 0)

\* C4 witness: an on_slot is outstanding while a CreateBlock waits in the stream, after
\* both an interval-caused and a trigger-caused on_slot were started
C4_Witness ==
    /\ on_slot_running = 1
    /\ command_stream # <<>>
    /\ Head(command_stream).trigger = "CreateBlock"
    /\ interval_ready
    /\ \E i \in 1..Len(on_slot_log) : on_slot_log[i] = 0
    /\ \E i \in 1..Len(on_slot_log) : on_slot_log[i] # 0

(***************************************************************************)
(* Claims about the collection window                                      *)
(***************************************************************************)

\* C10: the duration of every window built by SmartCollectionWindow::new lies in
\* [min_collection_time, max_collection_time] of its configuration.
C10_DurationWithinBounds ==
    (win_out.called /\ win_out.window.some) =>
        /\ win_out.window.val.duration >= win_in.cfg.min_collection_time
        /\ win_out.window.val.duration <= win_in.cfg.max_collection_time

\* C10 witness: a window was built whose unclamped duration is below the minimum, under
\* adaptive timing with a qualifying priority
C10_Witness ==
    /\ win_out.called
    /\ win_out.window.some
    /\ win_in.cfg.enable_adaptive_timing
    /\ win_in.cfg.min_collection_time < win_in.cfg.max_collection_time
    /\ AdjustedDuration(win_in.cfg, win_in.network_load, win_in.highest_priority,
                        win_in.priority_triggered) < win_in.cfg.min_collection_time
    /\ win_out.window.val.duration = win_in.cfg.min_collection_time

(***************************************************************************)
(* Claims about the controllers                                            *)
(***************************************************************************)

\* the interval of the empty-block timer, as the configuration gives it
EmptyBlockInterval == ctl_config.empty_block_interval_ms

\* C5: in both controllers handle_pool_event(PoolReady(count, _)) with
\* count >= max_batch_size returns ProduceImmediately and leaves no active window,
\* whether or not a window was active before the event.
C5_FullBatchProducesImmediately ==
    (/\ ctl_last.op = "handle_pool_event"
     /\ ctl_last.type = "PoolReady"
     /\ ctl_last.full) =>
        /\ ctl_last.ret = "ProduceImmediately"
        /\ ~collection_window.some

\* C6: in the network-load-aware controller every HighPriorityTransactionAdded(_, p) and
\* every PoolReady(count, Some(p)) with p >= priority_threshold returns ProduceImmediately
\* and leaves no active window, whatever the count and whether or not a window was active.
C6_HighPriorityProducesImmediately ==
    (/\ ctl_kind = "smart"
     /\ ctl_last.op = "handle_pool_event"
     /\ ctl_last.type \in {"HighPriorityTransactionAdded", "PoolReady"}
     /\ ctl_last.high) =>
        /\ ctl_last.ret = "ProduceImmediately"
        /\ ~collection_window.some

\* C7: handle_pool_event(PoolEmpty) returns None and leaves no active window and a pending
\* count of 0; every check_collection_window made after it, before a new window is
\* started, returns None.
C7_PoolEmptyCancelsWindow ==
    /\ (ctl_last.op = "handle_pool_event" /\ ctl_last.type = "PoolEmpty") =>
          /\ ctl_last.ret = "None"
          /\ ~collection_window.some
          /\ pending_transactions = 0
    /\ ("PoolEmpty" \in cleared_by) => ~collection_window.some
    /\ ("PoolEmpty" \in cleared_by /\ ctl_last.op = "check_collection_window") =>
          ctl_last.ret = "None"

\* C7 witness: after recorded pool events a PoolEmpty emptied the pool, no window was
\* started since, time passed, and a check_collection_window returned None
C7_Witness ==
    /\ cleared_by = {"PoolEmpty"}
    /\ ctl_kind = "smart"
    /\ network_load_tracker.transaction_history # <<>>
    /\ ctl_last.op = "check_collection_window"
    /\ ctl_last.ret = "None"
    /\ now > 0

\* C8: for each window check_collection_window returns CollectionWindowExpired at most
\* once: the first check after the timer has fired removes the window and returns
\* CollectionWindowExpired if the pending count is > 0 and None if it is 0; every check
\* before the timer fires and every check without a window returns None.
C8_ExpiryReportedOnce ==
    /\ expired_returns <= 1
    /\ ctl_last.op = "check_collection_window" =>
          /\ (ctl_last.pre_active /\ ctl_last.pre_expired) =>
                /\ ~collection_window.some
                /\ ctl_last.ret = IF pending_transactions > 0
                                  THEN "CollectionWindowExpired" ELSE "None"
          /\ (ctl_last.pre_active /\ ~ctl_last.pre_expired) =>
                /\ collection_window.some
                /\ ctl_last.ret = "None"
          /\ ~ctl_last.pre_active => ctl_last.ret = "None"

\* C8 witness: the expiry of a window was reported, and a later check with transactions
\* still pending and no new window returned None
C8_Witness ==
    /\ expired_returns = 1
    /\ ctl_last.op = "check_collection_window"
    /\ ~ctl_last.pre_active
    /\ ctl_last.ret = "None"
    /\ pending_transactions > 0

\* C9: record_block_produced clears the window and restarts the empty-block timer: a
\* check_collection_window after it returns None until a new window is started, and
\* check_empty_block_timer returns EmptyBlockTimer only with an interval configured and a
\* full interval elapsed since the last record_block_produced.
C9_BlockProducedResets ==
    /\ ctl_last.op = "record_block_produced" =>
          /\ ~collection_window.some
          /\ last_block_time = now
    /\ ("record_block_produced" \in cleared_by) => ~collection_window.some
    /\ ("record_block_produced" \in cleared_by /\ ctl_last.op = "check_collection_window") =>
          ctl_last.ret = "None"
    /\ (ctl_last.op = "check_empty_block_timer" /\ ctl_last.ret = "EmptyBlockTimer") =>
          /\ EmptyBlockInterval.some
          /\ now - last_block_time >= EmptyBlockInterval.val

\* C9 witness: a block was recorded after construction while the first empty-block timer
\* was due, and check_empty_block_timer returned EmptyBlockTimer a full interval later
C9_Witness ==
    /\ "record_block_produced" \in cleared_by
    /\ last_block_time > 0
    /\ ctl_last.op = "check_empty_block_timer"
    /\ ctl_last.ret = "EmptyBlockTimer"
    /\ now = last_block_time + EmptyBlockInterval.val

(***************************************************************************)
(* Claims about the backoff strategy                                       *)
(***************************************************************************)

\* C11: should_backoff(head_number, head_slot, finalized, slot_now) is true exactly when
\* slot_now > head_slot and slot_now <= head_slot + min(max_interval,
\* max(0, (head_number - finalized) - unfinalized_slack) / authoring_bias); it is false
\* whenever slot_now <= head_slot and whenever head_number - finalized <= unfinalized_slack.
C11_BackoffFormula ==
    bo_last.called =>
        LET excess == Max(0, (bo_last.head_number - bo_last.finalized)
                                - bo_param.unfinalized_slack)
            interval == Min(bo_param.max_interval, excess \div bo_param.authoring_bias)
        IN  /\ bo_last.ret <=> /\ bo_last.slot_now > bo_last.head_slot
                               /\ bo_last.slot_now <= bo_last.head_slot + interval
            /\ bo_last.slot_now <= bo_last.head_slot => ~bo_last.ret
            /\ bo_last.head_number - bo_last.finalized <= bo_param.unfinalized_slack =>
                  ~bo_last.ret

\* C11 witness: should_backoff returned true with an interval below max_interval, the head
\* being more than unfinalized_slack ahead of the finalized block
C11_Witness ==
    /\ bo_last.called
    /\ bo_last.ret
    /\ bo_param.authoring_bias = 2
    /\ bo_param.unfinalized_slack = 1
    /\ (bo_last.head_number - bo_last.finalized - 1) \div 2 < bo_param.max_interval
    /\ bo_last.slot_now = bo_last.head_slot + 1

\* C12: with finality stalled, a node that asks should_backoff in every slot and authors
\* when it is false has at most max_interval + 1 slots between two consecutive authored
\* slots, and should_backoff is false in every slot later than head_slot + max_interval.
C12_BackoffCapped ==
    /\ (bo_last.called /\ ~bo_last.ret /\ bo_last.prev_authored.some) =>
          bo_last.slot_now - bo_last.prev_authored.val <= bo_param.max_interval + 1
    /\ (bo_last.called /\ bo_last.slot_now > bo_last.head_slot + bo_param.max_interval) =>
          ~bo_last.ret
    /\ (last_authored.some /\ slot_now > last_authored.val) =>
          slot_now - last_authored.val <= bo_param.max_interval + 1

\* C12 witness: the unfinalized chain has grown beyond what gives the longest interval, and
\* a block was authored exactly max_interval + 1 slots after the previous one
C12_Witness ==
    /\ bo_last.called
    /\ ~bo_last.ret
    /\ bo_last.prev_authored.some
    /\ bo_last.slot_now - bo_last.prev_authored.val = bo_param.max_interval + 1
    /\ BackoffInterval_NoCap(bo_param, bo_last.head_number, bo_last.finalized)
          > bo_param.max_interval

(***************************************************************************)
(* Claims about on_slot                                                    *)
(***************************************************************************)

\* C13: when importing the sealed block fails, on_slot returns None and makes no second
\* import in the slot, so every SlotResult it returns is for an imported block.
C13_ImportFailureSkipsSlot ==
    os_out.called =>
        /\ os_out.import_calls <= 1
        /\ (os_out.import_calls = 1 /\ ~os_out.imported) => os_out.ret = None
        /\ os_out.ret.some => os_out.imported

(***************************************************************************)
(* Claims about claim_slot                                                 *)
(***************************************************************************)

\* the authorities of the set whose key the keystore holds
HeldAuthorities ==
    {cs_in.authorities[i] : i \in 1..Len(cs_in.authorities)} \cap cs_in.keystore

C15_StreamSurvivesFeedEnd ==
    es_feed_ended => ~es_ended

\* C16: every item delivered by the event source's signal stream is CreateBlock; a NoAction
\* decision taken inside the source is never forwarded.
C16_OnlyCreateBlockDelivered ==
    \A i \in 1..Len(es_delivered) : es_delivered[i] = "CreateBlock"

\* C16 witness: NoAction decisions were taken inside the source, by the import arm and
\* the backup arm, and two CreateBlock items were delivered
C16_Witness ==
    /\ es_noaction_seen
    /\ Len(es_delivered) = 2
    /\ es_sent > 0
    /\ backup_interval > BackupPeriod

(***************************************************************************)
(* Claims about the slot lenience                                          *)
(***************************************************************************)

\* the number of skipped slots of the call: slot - (parent_slot + 1), at least 0
LeSkipped ==
    IF le_in.slot > le_in.parent_slot + 1 THEN le_in.slot - (le_in.parent_slot + 1) ELSE 0

\* C19: with skipped = slot - (parent_slot + 1), saturating at 0, both lenience functions
\* return None when skipped = 0; otherwise the exponential lenience is
\* slot_duration * 2^min(skipped / 2, 7) and the linear one slot_duration * min(skipped, 20).
C19_SlotLenience ==
    le_out.called =>
        IF LeSkipped = 0
        THEN le_out.exponential = None /\ le_out.linear = None
        ELSE /\ le_out.exponential =
                   Some(le_in.duration * 2^(IF LeSkipped \div 2 < 7 THEN LeSkipped \div 2 ELSE 7))
             /\ le_out.linear =
                   Some(le_in.duration * (IF LeSkipped < 20 THEN LeSkipped ELSE 20))

\* C19 witness: more than 20 slots were skipped, so both caps apply
C19_Witness ==
    /\ le_out.called
    /\ LeSkipped > 20
    /\ le_out.exponential = Some(le_in.duration * 128)
    /\ le_out.linear = Some(le_in.duration * 20)
    /\ le_in.duration > 1

(***************************************************************************)
(* Claims about the pallet                                                 *)
(***************************************************************************)

\* the block of the last on_initialize call was rejected: on_initialize did not return for
\* it, so it is not among the blocks that were initialised
PlRejected == Len(pl_blocks) = pl_last.blocks_before

\* the last on_initialize call left CurrentSlot where it was or moved it forward to the
\* slot of the block
CurrentSlotNeverDecreases ==
    pl_last.called =>
        /\ CurrentSlot >= pl_last.before
        /\ CurrentSlot # pl_last.before => pl_last.new_slot = Some(CurrentSlot)

\* C20: across any sequence of on_initialize calls CurrentSlot never decreases and only
\* changes to a strictly greater slot; a block with a smaller slot is rejected, and so is a
\* block with an equal slot unless multiple blocks per slot are allowed, in which case it
\* is accepted.
C20_SlotNeverMovesBackwards ==
    /\ CurrentSlotNeverDecreases
    /\ (pl_last.called /\ pl_last.new_slot.some) =>
          /\ pl_last.new_slot.val < pl_last.before => PlRejected
          /\ (pl_last.new_slot.val = pl_last.before /\ ~AllowMultipleBlocksPerSlot)
                => PlRejected
          /\ (pl_last.new_slot.val = pl_last.before /\ AllowMultipleBlocksPerSlot)
                => ~PlRejected /\ CurrentSlot = pl_last.new_slot.val

(***************************************************************************)
(* Claims about the network load tracker                                   *)
(***************************************************************************)

\* C21: a tracker that has recorded 6 transactions within one second reports get_tps() > 0,
\* equal to the number of transactions in its history divided by the time elapsed since
\* the oldest of them.
C21_TpsAfterSixTransactions ==
    (lt_recorded = 6 /\ lt_now - lt_first.val <= Millis(1000)) =>
        /\ get_tps(lt_tracker).n > 0
        /\ get_tps(lt_tracker).n * (lt_now - lt_tracker.transaction_history[1])
             = Len(lt_tracker.transaction_history) * get_tps(lt_tracker).d

(***************************************************************************)
(* Claims about the steps of on_slot                                       *)
(***************************************************************************)

\* the calls of an on_slot call, as a set
Called(out) == {out.calls[i] : i \in 1..Len(out.calls)}

\* call a was made, and call b after it
CalledBefore(out, a, b) ==
    \E i, j \in 1..Len(out.calls) : i < j /\ out.calls[i] = a /\ out.calls[j] = b

\* how many times call a was made
TimesCalled(out, a) == Cardinality({i \in 1..Len(out.calls) : out.calls[i] = a})

\* every step before the import succeeds for the inputs
AllStepsSucceed(in) ==
    /\ in.time_left
    /\ in.aux_data_ok
    /\ ~(~in.force_authoring /\ in.is_offline
           /\ in.authorities_len.some /\ in.authorities_len.val > 1)
    /\ in.claim
    /\ ~in.backoff
    /\ in.proposer_ok
    /\ in.inherent_data = "ok"
    /\ in.proposing = "ok"
    /\ in.import_params_ok

\* C22: on_slot calls block import only after every earlier step has succeeded, in the
\* order remaining time, authority set, not waiting for the network, claim, backoff,
\* proposer, inherent data and proposal, sealing; if a step fails it returns None without
\* calling block import; the proposer and the block import are each invoked at most once.
C22_ImportOnlyAfterEveryStep ==
    os_out.called =>
        /\ "import_block" \in Called(os_out) =>
              /\ AllStepsSucceed(os_in)
              /\ CalledBefore(os_out, "proposing_remaining_duration", "aux_data")
              /\ CalledBefore(os_out, "aux_data", "authorities_len")
              /\ CalledBefore(os_out, "authorities_len", "claim_slot")
              /\ CalledBefore(os_out, "claim_slot", "should_backoff")
              /\ CalledBefore(os_out, "should_backoff", "proposer")
              /\ CalledBefore(os_out, "proposer", "create_inherent_data")
              /\ CalledBefore(os_out, "create_inherent_data", "propose")
              /\ CalledBefore(os_out, "propose", "block_import_params")
              /\ CalledBefore(os_out, "block_import_params", "import_block")
        /\ ~AllStepsSucceed(os_in) =>
              /\ os_out.ret = None
              /\ "import_block" \notin Called(os_out)
              /\ os_out.import_calls = 0
        /\ TimesCalled(os_out, "proposer") <= 1
        /\ TimesCalled(os_out, "import_block") <= 1

\* C22 witness: an offline node with two authorities that force-authors imports its block
C22_Witness ==
    /\ os_out.called
    /\ os_out.import_calls = 1
    /\ "import_block" \in Called(os_out)
    /\ os_in.is_offline
    /\ os_in.authorities_len = Some(2)
    /\ os_in.force_authoring

\* the on_slot call ran into the proposing deadline: while creating the inherent data, or
\* while building the block
DeadlineFired(out) == out.called /\ out.deadline # "none"

\* C23: if inherent-data creation or block construction has not completed when the
\* proposing deadline fires, the result is discarded: on_slot returns None and imports no
\* block; and a following on_slot proceeds normally, importing when its steps succeed.
C23_ProposingDeadlineIsHard ==
    /\ (/\ os_out.called
        /\ "create_inherent_data" \in Called(os_out)
        /\ \/ os_in.inherent_data = "timeout"
           \/ os_in.inherent_data = "ok" /\ os_in.proposing = "timeout") =>
          /\ DeadlineFired(os_out)
          /\ os_out.ret = None
          /\ os_out.import_calls = 0
          /\ ~os_out.imported
          /\ "block_import_params" \notin Called(os_out)
    /\ (DeadlineFired(os_prev) /\ os_out.called /\ AllStepsSucceed(os_in)) =>
          /\ os_out.import_calls = 1
          /\ os_out.ret # None

\* C23 witness: the deadline fired while the block was built, and the next slot's block was
\* imported
C23_Witness ==
    /\ DeadlineFired(os_prev)
    /\ os_prev.deadline = "propose"
    /\ os_prev.ret = None
    /\ os_out.called
    /\ os_out.imported

\* C24: the backoff strategy is consulted before the slot claim is attempted: claim_slot is
\* never called for a slot in which should_backoff returns true.
C24_BackoffBeforeClaim ==
    (os_out.called /\ "should_backoff" \in Called(os_out) /\ os_in.backoff) =>
        "claim_slot" \notin Called(os_out)

\* C24 as the code has it: the slot is claimed first and should_backoff is consulted only
\* for a claimed slot; when it returns true on_slot returns None and neither the proposer
\* nor the block import is called.
C24_BackoffAfterClaim ==
    os_out.called =>
        /\ "should_backoff" \in Called(os_out) =>
              /\ CalledBefore(os_out, "claim_slot", "should_backoff")
              /\ os_in.claim
        /\ ("should_backoff" \in Called(os_out) /\ os_in.backoff) =>
              /\ os_out.ret = None
              /\ "proposer" \notin Called(os_out)
              /\ "import_block" \notin Called(os_out)

\* C24 witness: a claimed slot in which should_backoff returned true
C24_Witness ==
    /\ os_out.called
    /\ os_out.stage = "backoff"
    /\ "claim_slot" \in Called(os_out)
    /\ os_in.claim
    /\ os_in.backoff

(***************************************************************************)
(* Claims about pool events that meet an active window                     *)
(***************************************************************************)

C26_BaselinePriorityContract ==
    (/\ ctl_kind = "legacy"
     /\ ctl_last.op = "handle_pool_event"
     /\ ctl_last.type = "HighPriorityTransactionAdded") =>
        /\ ctl_last.high => ctl_last.ret = "ProduceImmediately" /\ ~collection_window.some
        /\ ~ctl_last.high => ctl_last.ret = "None"

(***************************************************************************)
(* Claims about the event source's collection windows                      *)
(***************************************************************************)

\* C27: on every transaction-arrival notification the event source emits CreateBlock when
\* the pool's ready count is >= max_batch_size, whether or not a collection window is
\* already running, and no window remains afterwards.
C27_FullBatchOnNotification ==
    (es_last.arm = "import" /\ es_last.full) =>
        /\ es_last.trigger = "CreateBlock"
        /\ ~collection_timer.some

EsEmits == ~es_ended /\ es_last.trigger = "CreateBlock"

\* C29: the event source does not strand transactions: under fair scheduling of the backup
\* poll, if the pool's ready count is > 0 and stays as it is with no further arrivals, the
\* source goes on to emit CreateBlock, also after an earlier CreateBlock that left the pool
\* unchanged.  (Stated for a notification feed that stays open.)
C29_NoStrandedTransactions ==
    \A p \in {q \in PoolStates : q.ready > 0} :
        <>[](es_pool = p /\ es_notifications = 0 /\ ~es_feed_ended) => []<>EsEmits

(***************************************************************************)
(* Claims about the limits of the session's records                        *)
(***************************************************************************)

\* the count the offender table recorded for auth before the last call, 0 if none
PreOffenderCount(auth) ==
    LET i == OffenderIndex(det_last.pre_session.offender_counts, auth)
    IN  IF i = 0 THEN 0 ELSE det_last.pre_session.offender_counts[i][2]

\* the report list had reached its capacity before the last call: the configured
\* max_reports_per_session or the bound of the vector
PreReportsFull ==
    \/ Len(det_last.pre_session.reports) >= config.max_reports_per_session
    \/ Len(det_last.pre_session.reports) >= ReportsCapacity

\* C30: once the session's report list has reached its capacity, a further equivocation by
\* an authority that is already in the offender table still increments that authority's
\* count; only the report itself is dropped.
C30_CountGrowsWhenReportsFull ==
    (/\ det_last.op = "check_block"
     /\ det_last.ret.some
     /\ PreReportsFull
     /\ PreOffenderCount(det_last.author) > 0) =>
        /\ OffenderCount(det_last.author) = PreOffenderCount(det_last.author) + 1
        /\ session_equivocations.reports = det_last.pre_session.reports

\* C31: the detector's memory is bounded: at most 100 reports, at most 100 offender entries
\* of pairwise distinct authorities, at most 1,000 slots in the slot index after each
\* check_block, and a check_block that makes the index exceed 1,000 slots removes exactly
\* the numerically smallest slot key.
C31_DetectorMemoryBounded ==
    /\ Len(session_equivocations.reports) <= 100
    /\ Len(session_equivocations.offender_counts) <= 100
    /\ Cardinality({session_equivocations.offender_counts[i][1] :
                       i \in 1..Len(session_equivocations.offender_counts)}) =
          Len(session_equivocations.offender_counts)
    /\ Cardinality(DOMAIN slot_blocks) <= 1000
    /\ det_last.op = "check_block" =>
          LET given == det_last.pre_slots \cup {det_last.slot}
          IN  IF Cardinality(given) > 1000
              THEN DOMAIN slot_blocks = given \ {SetMin(given)}
              ELSE DOMAIN slot_blocks = given

\* C31 witness: the report list and the offender table are full and the last check_block
\* brought a slot that the full slot index did not hold
C31_Witness ==
    /\ det_last.op = "check_block"
    /\ Cardinality(det_last.pre_slots) = 1000
    /\ det_last.slot \notin det_last.pre_slots
    /\ Cardinality(DOMAIN slot_blocks) = 1000
    /\ Len(session_equivocations.reports) = 100
    /\ Len(session_equivocations.offender_counts) = 100

\* C32: every proof returned by check_block is accepted by utils::verify_equivocation_proof,
\* whatever pair of headers the detector was given for one slot and author.
C32_ProofsVerify ==
    (det_last.op = "check_block" /\ det_last.ret.some) =>
        verify_equivocation_proof(det_last.ret.val)

\* C33: update_priority(p, config) on a window whose highest priority is lower than p, or
\* absent, sets the window's highest priority to p, and if p >= priority_threshold it leaves
\* at most 100 ms until the window expires.
C33_UpdatePriorityShortens ==
    (/\ wl_last.called
     /\ \/ ~wl_last.pre.val.highest_priority.some
        \/ wl_last.pre.val.highest_priority.val < wl_last.priority) =>
        /\ wl_window.highest_priority = Some(wl_last.priority)
        /\ wl_last.priority >= wl_config.priority_threshold =>
              wl_window.timer - wl_last.at <= Millis(100)

\* C34: update_priority never postpones a window's expiry: for a window that has not
\* expired yet, the instant at which is_expired first becomes true is no later after the
\* call than it was before the call.
C34_UpdatePriorityNeverPostpones ==
    (wl_last.called /\ ~is_expired(wl_last.pre.val, wl_last.at)) =>
        wl_window.timer <= wl_last.pre.val.timer

\* the unfinalized length seen by the last should_backoff call has reached
\* unfinalized_slack + authoring_bias
LagReached ==
    SaturatingSub(bo_last.head_number, bo_last.finalized) >=
        bo_param.unfinalized_slack + bo_param.authoring_bias

\* C35: with finality stalled and the head advancing by one block in every slot,
\* should_backoff is false in each slot until the unfinalized length reaches
\* unfinalized_slack + authoring_bias, and true in that slot and in every later slot.
C35_StallStopsAuthoring ==
    bo_last.called => (bo_last.ret <=> LagReached)

\* C35 as the code has it: the same, for a strategy whose max_interval is at least 1;
\* with max_interval = 0 should_backoff is false in every slot.
C35_StallStopsAuthoringWithInterval ==
    /\ (bo_last.called /\ bo_param.max_interval >= 1) => (bo_last.ret <=> LagReached)
    /\ (bo_last.called /\ bo_param.max_interval = 0) => ~bo_last.ret

\* C35 witness: the first slot in which the unfinalized length has reached
\* unfinalized_slack + authoring_bias, under a slack of 2 and a bias of 2
C35_Witness ==
    /\ bo_last.called
    /\ bo_last.ret
    /\ bo_param.unfinalized_slack = 2
    /\ bo_param.authoring_bias = 2
    /\ bo_last.head_number - bo_last.finalized = 4
    /\ bo_last.slot_now = bo_last.head_slot + 1

\* C36: in force-authoring mode the slot's assigned authority is tried first: if the
\* keystore holds the key of the authority at index slot mod (number of authorities),
\* claim_slot returns that authority, even when the keystore also holds keys of other
\* authorities of the set.
C36_ForceAuthoringTriesAssignedFirst ==
    (/\ cs_out.called
     /\ cs_in.force_authoring
     /\ cs_in.authorities # <<>>
     /\ slot_author(cs_in.slot, cs_in.authorities).val \in cs_in.keystore) =>
        cs_out.ret = slot_author(cs_in.slot, cs_in.authorities)

\* C37: on_initialize rejects a block whose slot is assigned (slot mod number of
\* authorities) to a disabled validator: block initialization is aborted with a panic, so
\* CurrentSlot is not advanced to that block's slot.
C37_DisabledValidatorBlockRejected ==
    (pl_last.called /\ pl_last.assigned_disabled) =>
        /\ PlRejected
        /\ CurrentSlot = pl_last.before

\* C38: in the pallet, each report_equivocation from a signed origin raises the offender's
\* session count by exactly 1; after any sequence of calls an authority is disabled exactly
\* when an equivocation was reported against it while slashing was enabled and
\* enable_authority has not been called for it since; clear_session_equivocations resets
\* every count to 0 without changing which authorities are disabled.
C38_PalletCountsAndDisabling ==
    /\ (pe_last.call = "report_equivocation" /\ pe_last.origin = "signed") =>
          /\ SessionEquivocations[pe_last.authority] = pe_last.pre_counts[pe_last.authority] + 1
          /\ \A a \in PeAuthorities \ {pe_last.authority} :
                SessionEquivocations[a] = pe_last.pre_counts[a]
    /\ DisabledAuthorities = pe_due
    /\ (pe_last.call = "clear_session_equivocations" /\ pe_last.ok) =>
          /\ \A a \in PeAuthorities : SessionEquivocations[a] = 0
          /\ DisabledAuthorities = pe_last.pre_disabled

\* C38 witness: the counts were cleared while an authority with a count of 2 was disabled,
\* another authority having been reported without being disabled
C38_Witness ==
    /\ pe_last.call = "clear_session_equivocations"
    /\ pe_last.ok
    /\ \E a \in PeAuthorities : pe_last.pre_counts[a] = 2 /\ a \in DisabledAuthorities
    /\ \E a \in PeAuthorities : pe_last.pre_counts[a] > 0 /\ a \notin DisabledAuthorities

\* C39: no ConsensusMonitor operation tries to acquire a lock it already holds:
\* record_slot, record_block_production, update_authority_count and check_consensus_stall
\* always run to completion, including when they detect and record an anomaly (for
\* example two record_block_production calls whose spacing deviates from 500 ms by more
\* than the variance threshold).
C39_MonitorOperationsComplete ==
    mo_last.op # "none" => (mo_last.fail # "relock" /\ mo_last.outcome = "completed")

\* C40: the baseline controller's collection-window duration depends only on the pending
\* transaction count: max_collection_time for count <= 10, 1000 ms for 10 < count <= 50,
\* and min_collection_time for count > 50; with the default configuration (100 ms to
\* 400 ms) 25 pending transactions give a 1000 ms window.
C40_DurationByCountOnly ==
    cd_out.called =>
        /\ cd_in.tx_count <= 10 => cd_out.duration = cd_in.collection.max_collection_time
        /\ (cd_in.tx_count > 10 /\ cd_in.tx_count <= 50) => cd_out.duration = Millis(1000)
        /\ cd_in.tx_count > 50 => cd_out.duration = cd_in.collection.min_collection_time
        /\ (/\ cd_in.tx_count = 25
            /\ cd_in.collection.min_collection_time = Millis(100)
            /\ cd_in.collection.max_collection_time = Millis(400)) =>
                cd_out.duration = Millis(1000)
====
